---- MODULE Spec2Model ----
(***************************************************************************)
(* HisenseTVController (custom_components/better_hisense_tv/               *)
(* tv_controller.py) as a state machine: one controller object, the MQTT   *)
(* clients it creates, the broker/device as environment, and the           *)
(* coroutines that call the controller concurrently on one event loop.     *)
(*                                                                         *)
(* A step of a task is the code between two suspending awaits: asyncio     *)
(* switches tasks only where a coroutine really suspends, which in this    *)
(* controller is the wait for the connected event (ensure_connected) and   *)
(* the wait for a topic future (_await_topic_once).  The asyncio.Lock of   *)
(* _subscribe/_publish is taken and released inside one step (its body     *)
(* holds no await), so it never makes a task wait.                         *)
(*                                                                         *)
(* Strings are the program's strings.  MD5 is kept uninterpreted:          *)
(* string_to_hash(s) is the text "MD5(s)".                                 *)
(***************************************************************************)
EXTENDS Integers, Sequences, FiniteSets, TLC

VARIABLES
    client,                    \* self.client: the paho client, or NoClient
    orphans,                   \* clients that were replaced while still running
    is_connected,              \* self.is_connected
    connected_evt,             \* self._connected_evt
    topic_waiters,             \* self._topic_waiters: topic -> task owning the future
    subscriptions,             \* self._subscriptions
    accesstoken, accesstoken_time, accesstoken_duration_day,
    refreshtoken, refreshtoken_time, refreshtoken_duration_day,
    client_id, username, password, timestamp,
    authenticated,
    topicTVUIBasepath, topicTVPSBasepath, topicMobiBasepath,
    topicBrcsBasepath, topicRemoBasepath,
    fut,                       \* per task: the future it awaits
    pc,                        \* per task: the await it is suspended in
    op,                        \* per task: the facade operation in progress
    inner,                     \* per task: _get_info / _send_command frame
    snap,                      \* per task: token fields when its call began
    trace,                     \* network actions of the step just taken
    entry,                     \* the config entry written by the config flow
    calls                      \* operations started so far

vars == << client, orphans, is_connected, connected_evt, topic_waiters,
           subscriptions, accesstoken, accesstoken_time,
           accesstoken_duration_day, refreshtoken, refreshtoken_time,
           refreshtoken_duration_day, client_id, username, password,
           timestamp, authenticated, topicTVUIBasepath, topicTVPSBasepath,
           topicMobiBasepath, topicBrcsBasepath, topicRemoBasepath,
           fut, pc, op, inner, snap, trace, entry, calls >>

(***************************************************************************)
(* Values                                                                  *)
(***************************************************************************)
\* Two coroutines that use the controller at the same time (the
\* coordinator's update and an entity service call, or two library callers).
Tasks == {"t1", "t2"}

None == "None"          \* Python None in a string-valued field
NoneInt == -1           \* Python None in an integer-valued field
NoExc == ""

Truthy(x) == x # None /\ x # ""
TruthyInt(n) == n # NoneInt /\ n # 0

NoClient ==
    [client_id |-> None, username |-> None, password |-> None,
     running |-> FALSE, connected |-> FALSE, subs |-> {}]

EmptyMap == [x \in {} |-> None]
NoEntry == [created |-> FALSE, credentials |-> EmptyMap]
\* a future: its state, its result, the topic it waits for (None for the
\* connected event), and whether registering it replaced an unresolved one
NoFuture ==
    [state |-> "none", result |-> None, topic |-> None, second |-> FALSE]
NoTokens ==
    [accesstoken |-> None, accesstoken_time |-> NoneInt,
     accesstoken_duration_day |-> NoneInt, refreshtoken |-> None,
     refreshtoken_time |-> NoneInt, refreshtoken_duration_day |-> NoneInt]
NoIdentity == [client_id |-> None, username |-> None, password |-> None]
\* what a task noted: the token fields when its refresh began, the identity
\* its request_auth_code derived, and whether a step of the pairing attempt
\* that request_auth_code began has failed
\* sent: the commands the call has published through _send_command
\* inputs: the time, hardware address and flag its derivation read
\* replied: the device has published a reply since the call's request went
\* out and before the call's wait timed out
NoInputs == [timestamp |-> NoneInt, mac |-> None, new_auth |-> FALSE]
NoSnap ==
    [tokens |-> NoTokens, identity |-> NoIdentity, failed |-> FALSE,
     sent |-> <<>>, inputs |-> NoInputs, replied |-> FALSE]
NoApp == [appId |-> None, name |-> None, url |-> None]

\* the locals of the helper a task is in (fn, its topics, its command) and
\* of the operation that called it: the state reply it holds, the app it
\* resolved, and the await it has reached
NoFrame ==
    [fn |-> "", callback_topic |-> None, publish_topic |-> None,
     command |-> None, state |-> None, app |-> NoApp, app_name |-> None,
     stage |-> ""]

\* time.time() at identity derivation, and the hardware address drawn by
\* random_mac_address
Timestamps == {1000, 1009}
Macs == {"aa:bb:cc:dd:ee:ff", "11:22:33:44:55:66"}

\* time.time() at a token check, against tokens issued at 1000 for one day:
\* 80000 s after issue, exactly at the bound, 90000 s after issue
SecondsPerDay == 86400
NowValues == {81000, 1000 + SecondsPerDay, 91000}

\* operations started in one behaviour
MaxCalls == 2

(***************************************************************************)
(* Text                                                                    *)
(***************************************************************************)
Digit(d) ==
    CASE d = 0 -> "0" [] d = 1 -> "1" [] d = 2 -> "2" [] d = 3 -> "3"
      [] d = 4 -> "4" [] d = 5 -> "5" [] d = 6 -> "6" [] d = 7 -> "7"
      [] d = 8 -> "8" [] d = 9 -> "9"

RECURSIVE Str(_)
Str(n) == IF n < 10 THEN Digit(n) ELSE Str(n \div 10) \o Digit(n % 10)

RECURSIVE cross_sum(_)
cross_sum(n) == IF n < 10 THEN n ELSE cross_sum(n \div 10) + (n % 10)

string_to_hash(s) == "MD5(" \o s \o ")"
First6(h) == h \o "[:6]"

\* timestamp ^ 6239759785777146216 exceeds the checker's integers; the
\* exclusive-or with a constant is kept as text
XorUsername(ts) == Str(ts) \o "^6239759785777146216"

(***************************************************************************)
(* Payloads, as the text on the wire, and json.loads on them               *)
(***************************************************************************)
AuthAck == "\"\""
Result1 == "{\"result\":1}"
Result0 == "{\"result\":0}"
Garbage == "<html>"
EmptyPayload == "<no payload>"

Token1 ==
    "{\"accesstoken\":\"A1\",\"accesstoken_time\":1000,\"accesstoken_duration_day\":1,\"refreshtoken\":\"R1\",\"refreshtoken_time\":1000,\"refreshtoken_duration_day\":30}"
Token2 ==
    "{\"accesstoken\":\"A2\",\"accesstoken_time\":90000,\"accesstoken_duration_day\":2,\"refreshtoken\":\"R2\",\"refreshtoken_time\":90000,\"refreshtoken_duration_day\":31}"
TokenPartial ==
    "{\"accesstoken\":\"A3\",\"accesstoken_time\":95000,\"accesstoken_duration_day\":3}"

StateOff == "{\"statetype\":\"fake_sleep_0\"}"
StateOn == "{\"statetype\":\"livetv\"}"
StateEmpty == "{}"
Volume10 == "{\"volume_type\":0,\"volume_value\":10}"
SourceList == "[{\"sourceid\":\"3\",\"displayname\":\"HDMI 1\"}]"
AppList ==
    "[{\"appId\":\"1\",\"name\":\"Netflix\",\"url\":\"netflix\"},{\"appId\":\"2\",\"name\":\"YouTube\",\"url\":\"youtube\"}]"

\* json.loads: ok is false where it raises JSONDecodeError; kind is the
\* Python type of the value; d is the dict (empty for other types)
json_loads(text) ==
    CASE text = AuthAck ->
            [ok |-> TRUE, kind |-> "str", d |-> <<>>]
      [] text = Result1 ->
            [ok |-> TRUE, kind |-> "dict", d |-> [result |-> 1]]
      [] text = Result0 ->
            [ok |-> TRUE, kind |-> "dict", d |-> [result |-> 0]]
      [] text = Token1 ->
            [ok |-> TRUE, kind |-> "dict",
             d |-> [accesstoken |-> "A1", accesstoken_time |-> 1000,
                    accesstoken_duration_day |-> 1, refreshtoken |-> "R1",
                    refreshtoken_time |-> 1000,
                    refreshtoken_duration_day |-> 30]]
      [] text = Token2 ->
            [ok |-> TRUE, kind |-> "dict",
             d |-> [accesstoken |-> "A2", accesstoken_time |-> 90000,
                    accesstoken_duration_day |-> 2, refreshtoken |-> "R2",
                    refreshtoken_time |-> 90000,
                    refreshtoken_duration_day |-> 31]]
      [] text = TokenPartial ->
            [ok |-> TRUE, kind |-> "dict",
             d |-> [accesstoken |-> "A3", accesstoken_time |-> 95000,
                    accesstoken_duration_day |-> 3]]
      [] text = StateOff ->
            [ok |-> TRUE, kind |-> "dict", d |-> [statetype |-> "fake_sleep_0"]]
      [] text = StateOn ->
            [ok |-> TRUE, kind |-> "dict", d |-> [statetype |-> "livetv"]]
      [] text = Volume10 ->
            [ok |-> TRUE, kind |-> "dict",
             d |-> [volume_type |-> 0, volume_value |-> 10]]
      [] text = StateEmpty ->
            [ok |-> TRUE, kind |-> "dict", d |-> EmptyMap]
      [] text = SourceList ->
            [ok |-> TRUE, kind |-> "list",
             d |-> <<[sourceid |-> "3", displayname |-> "HDMI 1"]>>]
      [] text = AppList ->
            [ok |-> TRUE, kind |-> "list",
             d |-> <<[appId |-> "1", name |-> "Netflix", url |-> "netflix"],
                     [appId |-> "2", name |-> "YouTube", url |-> "youtube"]>>]
      [] OTHER ->
            [ok |-> FALSE, kind |-> "none", d |-> <<>>]

HasKey(d, k) == k \in DOMAIN d

Get(d, k) == IF HasKey(d, k) THEN d[k] ELSE None

GetInt(d, k) == IF HasKey(d, k) THEN d[k] ELSE NoneInt

\* str.upper() on the names the device lists and the callers ask for
upper(name) ==
    CASE name \in {"Netflix", "NETFLIX"} -> "NETFLIX"
      [] name \in {"YouTube", "youtube"} -> "YOUTUBE"
      [] name = "Prime" -> "PRIME"
      [] OTHER -> name

\* "not value" of Python for what _get_info returns: None, {} and []
Falsy(text) ==
    \/ ~json_loads(text).ok
    \/ json_loads(text).kind = "dict" /\ DOMAIN json_loads(text).d = {}
    \/ json_loads(text).kind = "list" /\ Len(json_loads(text).d) = 0

(***************************************************************************)
(* The controller as a value.  A step reads Cur(t), threads the record     *)
(* through the operators below in program order, and Commit writes it      *)
(* back.  s.exc is the exception in flight: once it is set, the operators  *)
(* that follow in program order do nothing, as after a raise.  s.next is   *)
(* where the acting task stands at the end of the step.                    *)
(***************************************************************************)
Cur ==
    [client |-> client, orphans |-> orphans, is_connected |-> is_connected,
     connected_evt |-> connected_evt, topic_waiters |-> topic_waiters,
     subscriptions |-> subscriptions,
     accesstoken |-> accesstoken, accesstoken_time |-> accesstoken_time,
     accesstoken_duration_day |-> accesstoken_duration_day,
     refreshtoken |-> refreshtoken, refreshtoken_time |-> refreshtoken_time,
     refreshtoken_duration_day |-> refreshtoken_duration_day,
     client_id |-> client_id, username |-> username, password |-> password,
     timestamp |-> timestamp, authenticated |-> authenticated,
     topicTVUIBasepath |-> topicTVUIBasepath,
     topicTVPSBasepath |-> topicTVPSBasepath,
     topicMobiBasepath |-> topicMobiBasepath,
     topicBrcsBasepath |-> topicBrcsBasepath,
     topicRemoBasepath |-> topicRemoBasepath,
     fut |-> fut, trace |-> <<>>, exc |-> NoExc, next |-> "run", val |-> None]

\* Cur with the acting task's own frame: its operation, the locals of the
\* frame it is in, and what it noted when its call began
Of(t) == [op |-> op[t], frame |-> inner[t], snap |-> snap[t]] @@ Cur

Running(s) == s.exc = NoExc /\ s.next = "run"

Raise(s, e) == IF s.exc # NoExc THEN s ELSE [s EXCEPT !.exc = e]

\* One network action, with the credentials in force when it was made
Tokens(s) ==
    [accesstoken |-> s.accesstoken, accesstoken_time |-> s.accesstoken_time,
     accesstoken_duration_day |-> s.accesstoken_duration_day,
     refreshtoken |-> s.refreshtoken,
     refreshtoken_time |-> s.refreshtoken_time,
     refreshtoken_duration_day |-> s.refreshtoken_duration_day]

Ev(s, ev, fn, topic, payload) ==
    [ev |-> ev, fn |-> fn, topic |-> topic, payload |-> payload,
     password |-> s.client.password, tokens |-> Tokens(s), now |-> NoneInt,
     before |-> NoTokens, op |-> s.op, state |-> s.frame.state,
     app_name |-> s.frame.app_name, sent |-> s.snap.sent]

Emit(s, ev, fn, topic, payload) ==
    [s EXCEPT !.trace = Append(@, Ev(s, ev, fn, topic, payload))]

_build_client(cid, user, pw) ==
    [client_id |-> cid, username |-> user, password |-> pw,
     running |-> FALSE, connected |-> FALSE, subs |-> {}]

\* a derivation that numbers the client id after the derivations before it
_define_hashes_numbered(s, now, mac, new_auth) ==
    LET third_hash ==
            string_to_hash("his" \o Str(cross_sum(now) % 10)
                                 \o "h*i&s%e!r^v0i1c9")
    IN  [s EXCEPT
            !.timestamp = now,
            !.username = IF new_auth THEN "his$" \o XorUsername(now)
                                     ELSE "his$" \o Str(now),
            !.password =
                string_to_hash(Str(now) \o "$" \o First6(third_hash)),
            !.client_id =
                mac \o "$his$"
                    \o First6(string_to_hash(
                            "38D65DC30F45109A369A86FCE866A85B$" \o mac))
                    \o (IF s.client_id = None THEN "_vidaacommon_001"
                                               ELSE "_vidaacommon_002")]

\* string_to_hash chain of _define_hashes
_define_hashes(s, now, mac, new_auth) ==
    LET first_hash == string_to_hash("&vidaa#^app")
        second_hash ==
            string_to_hash("38D65DC30F45109A369A86FCE866A85B$" \o mac)
        last_digit_of_cross == cross_sum(now) % 10
        third_hash ==
            string_to_hash("his" \o Str(last_digit_of_cross)
                                 \o "h*i&s%e!r^v0i1c9")
        fourth_hash ==
            string_to_hash(Str(now) \o "$" \o First6(third_hash))
    IN  [s EXCEPT
            !.timestamp = now,
            !.username = IF new_auth THEN "his$" \o XorUsername(now)
                                     ELSE "his$" \o Str(now),
            !.password = fourth_hash,
            !.client_id = mac \o "$his$" \o First6(second_hash)
                              \o "_vidaacommon_001"]

_define_topic_paths(s) ==
    IF s.exc # NoExc THEN s
    ELSE [s EXCEPT
            !.topicTVUIBasepath =
                "/remoteapp/tv/ui_service/" \o s.client_id \o "/",
            !.topicTVPSBasepath =
                "/remoteapp/tv/platform_service/" \o s.client_id \o "/",
            !.topicMobiBasepath = "/remoteapp/mobile/" \o s.client_id \o "/",
            !.topicBrcsBasepath = "/remoteapp/mobile/broadcast/",
            !.topicRemoBasepath =
                "/remoteapp/tv/remote_service/" \o s.client_id \o "/"]

\* self.<key> = credentials["<key>"], which raises KeyError for a missing key
Assign(s, credentials, key) ==
    IF s.exc # NoExc THEN s
    ELSE IF HasKey(credentials, key)
         THEN [s EXCEPT ![key] = credentials[key]]
    ELSE Raise(s, "KeyError")

\* the six assignments, and the refresh token stored as the password too
_apply_credentials_password(s, credentials) ==
    LET a == Assign(Assign(Assign(Assign(Assign(Assign(s,
                credentials, "accesstoken"),
                credentials, "accesstoken_time"),
                credentials, "accesstoken_duration_day"),
                credentials, "refreshtoken"),
                credentials, "refreshtoken_time"),
                credentials, "refreshtoken_duration_day")
    IN  IF a.exc # NoExc THEN a ELSE [a EXCEPT !.password = a.refreshtoken]

\* Six assignments in order; the first missing key raises KeyError and the
\* assignments before it stay
_apply_credentials(s, credentials) ==
    Assign(Assign(Assign(Assign(Assign(Assign(s,
        credentials, "accesstoken"),
        credentials, "accesstoken_time"),
        credentials, "accesstoken_duration_day"),
        credentials, "refreshtoken"),
        credentials, "refreshtoken_time"),
        credentials, "refreshtoken_duration_day")

(***************************************************************************)
(* Transport                                                               *)
(***************************************************************************)
\* a teardown that leaves the running client in place
StopNothing(s, fn) == s

\* client.loop_stop(); client.disconnect(); self.client = None;
\* _connected_evt.clear(); _subscriptions.clear().  The stopped client runs
\* no callback afterwards.
StopClient(s, fn) ==
    IF s.exc # NoExc \/ s.client = NoClient THEN s
    ELSE [Emit(s, "teardown", fn, None, None) EXCEPT
            !.client = NoClient,
            !.connected_evt = FALSE,
            !.subscriptions = {}]

\* ensure_connected up to its await: a client is built and started when
\* there is none or the controller is not connected; a client that is
\* replaced here is not stopped.  When the connected event is not set the
\* task suspends at `at`, waiting on the future of Event.wait().
ensure_connected(s, t, user, pw, cid, fn, at) ==
    IF s.exc # NoExc THEN s
    ELSE
    LET s1 == IF s.client = NoClient \/ ~s.is_connected
              THEN LET built == [s EXCEPT
                            !.orphans = IF s.client # NoClient
                                        THEN @ \cup {s.client} ELSE @,
                            !.client = [_build_client(cid, user, pw)
                                            EXCEPT !.running = TRUE]]
                   IN  Emit(built, "connect", fn, None, None)
              ELSE s
    IN  IF ~s1.connected_evt
        THEN [s1 EXCEPT !.fut[t] = [state |-> "pending", result |-> None,
                                         topic |-> None, second |-> FALSE],
                        !.next = at]
        ELSE s1

\* the rest of ensure_connected, when the wait ended
ensure_connected_resume(s, t) ==
    IF s.fut[t].state = "done"
    THEN [s EXCEPT !.is_connected = TRUE, !.fut[t] = NoFuture]
    ELSE [Raise(s, "RuntimeError: Timeout while connecting to MQTT broker")
            EXCEPT !.is_connected = FALSE, !.fut[t] = NoFuture]

\* a subscribe that does not look at self._subscriptions
_subscribe_always(s, topic, fn) ==
    IF s.exc # NoExc THEN s
    ELSE IF s.client = NoClient THEN Raise(s, "AssertionError")
    ELSE IF ~s.client.connected
         THEN Raise(s, "RuntimeError: Failed to subscribe")
    ELSE [Emit(s, "subscribe", fn, topic, None) EXCEPT
            !.client.subs = @ \cup {topic},
            !.subscriptions = @ \cup {topic}]

\* paho returns MQTT_ERR_NO_CONN for a client without an open connection
_subscribe(s, topic, fn) ==
    IF s.exc # NoExc THEN s
    ELSE IF topic \in s.subscriptions THEN s
    ELSE IF s.client = NoClient THEN Raise(s, "AssertionError")
    ELSE IF ~s.client.connected
         THEN Raise(s, "RuntimeError: Failed to subscribe")
    ELSE [Emit(s, "subscribe", fn, topic, None) EXCEPT
            !.client.subs = @ \cup {topic},
            !.subscriptions = @ \cup {topic}]

_publish(s, topic, payload, fn) ==
    IF s.exc # NoExc THEN s
    ELSE IF s.client = NoClient THEN Raise(s, "AssertionError")
    ELSE IF ~s.client.connected
         THEN Raise(s, "RuntimeError: Failed to publish")
    ELSE Emit(s, "publish", fn, topic, payload)

(***************************************************************************)
(* Correlation                                                             *)
(***************************************************************************)
Waiting(s, topic) ==
    /\ topic \in DOMAIN s.topic_waiters
    /\ s.fut[s.topic_waiters[topic]].state = "pending"
    /\ s.fut[s.topic_waiters[topic]].topic = topic

\* _await_topic_once up to its await: cancel an unresolved waiter of the
\* topic, register a fresh future, subscribe, suspend at `at`
_await_topic_once(s, t, topic, fn, at) ==
    IF s.exc # NoExc THEN s
    ELSE
    LET s1 == IF Waiting(s, topic)
              THEN [s EXCEPT !.fut[s.topic_waiters[topic]].state = "cancelled"]
              ELSE s
        s2 == [s1 EXCEPT
                !.fut[t] = [state |-> "pending", result |-> None,
                            topic |-> topic, second |-> Waiting(s, topic)],
                !.topic_waiters =
                    [x \in (DOMAIN s1.topic_waiters) \cup {topic} |->
                        IF x = topic THEN t ELSE s1.topic_waiters[x]]]
        s3 == _subscribe(s2, topic, fn)
    IN  IF s3.exc # NoExc THEN s3 ELSE [s3 EXCEPT !.next = at]

\* a finally clause that clears the table
PopAll(s, topic) == [s EXCEPT !.topic_waiters = EmptyMap]

\* a finally clause that leaves the table as it is
PopNothing(s, topic) == s

\* the finally clause: self._topic_waiters.pop(topic, None)
PopWaiter(s, topic) ==
    [s EXCEPT !.topic_waiters =
        [x \in (DOMAIN s.topic_waiters) \ {topic} |-> s.topic_waiters[x]]]

\* the rest of _await_topic_once, when the wait ended: the payload, or
\* CancelledError when the future was cancelled, or TimeoutError
_await_topic_once_resume(s, t) ==
    LET st == s.fut[t].state
        topic == s.fut[t].topic
        s1 == [PopWaiter(s, topic) EXCEPT !.fut[t] = NoFuture]
    IN  IF st = "done" THEN [s1 EXCEPT !.val = s.fut[t].result]
        ELSE IF st = "cancelled" THEN Raise(s1, "CancelledError")
        ELSE Raise(s1, "TimeoutError")

(***************************************************************************)
(* Pairing                                                                 *)
(***************************************************************************)
AppConnect ==
    "{\"app_version\":2,\"connect_result\":0,\"device_type\":\"Mobile App\"}"
AuthAckPadded == " \"\"\n"

\* str.strip() on the payloads of the model
strip(text) == IF text = AuthAckPadded THEN AuthAck ELSE text

Identity(s) ==
    [client_id |-> s.client_id, username |-> s.username,
     password |-> s.password]

\* request_auth_code from the five subscriptions to the await of the
\* authentication topic
request_auth_code_connected(s, t) ==
    IF ~Running(s) THEN s
    ELSE
    LET fn == "request_auth_code"
        auth_topic == s.topicMobiBasepath \o "ui_service/data/authentication"
        s1 == _subscribe(s, s.topicBrcsBasepath \o "ui_service/state", fn)
        s2 == _subscribe(s1, auth_topic, fn)
        s3 == _subscribe(s2, s.topicMobiBasepath
                                \o "ui_service/data/authenticationcode", fn)
        s4 == _subscribe(s3, s.topicBrcsBasepath
                                \o "ui_service/data/hotelmodechange", fn)
        s5 == _subscribe(s4, s.topicMobiBasepath
                                \o "platform_service/data/tokenissuance", fn)
        s6 == _publish(s5, s.topicTVUIBasepath \o "actions/vidaa_app_connect",
                       AppConnect, fn)
    IN  _await_topic_once(s6, t, auth_topic, fn, "request_auth_code:auth")

request_auth_code(s, t, now, mac, new_auth) ==
    LET fn == "request_auth_code"
        s1 == _define_topic_paths(_define_hashes(s, now, mac, new_auth))
        s2 == [Emit(s1, "derived", fn, None, None) EXCEPT
                    !.snap.identity = Identity(s1),
                    !.snap.inputs = [timestamp |-> now, mac |-> mac,
                                     new_auth |-> new_auth],
                    !.snap.failed = FALSE]
        s3 == ensure_connected(s2, t, s2.username, s2.password, s2.client_id,
                               fn, "request_auth_code:connect")
    IN  request_auth_code_connected(s3, t)

\* the check of the authentication payload, s.val
request_auth_code_checked(s) ==
    IF strip(s.val) # AuthAck
    THEN Raise(s, "RuntimeError: Unexpected authentication payload")
    ELSE [s EXCEPT !.next = "idle", !.val = None]

request_auth_code_acked(s) ==
    IF ~Running(s) THEN s
    ELSE request_auth_code_checked(
            Emit(s, "reply", "request_auth_code",
                 s.topicMobiBasepath \o "ui_service/data/authentication",
                 s.val))

verify_auth_code(s, t, auth_code) ==
    IF ~Running(s) THEN s
    ELSE IF ~(Truthy(s.client_id) /\ Truthy(s.username) /\ Truthy(s.password))
         THEN Raise(s, "AssertionError")
    ELSE IF s.client = NoClient THEN Raise(s, "AssertionError")
    ELSE
    LET fn == "verify_auth_code"
        auth_code_topic ==
            s.topicMobiBasepath \o "ui_service/data/authenticationcode"
        token_topic ==
            s.topicMobiBasepath \o "platform_service/data/tokenissuance"
        s1 == [s EXCEPT !.frame = [NoFrame EXCEPT !.fn = fn,
                                       !.callback_topic = token_topic]]
        s2 == _publish(s1, s.topicTVUIBasepath \o "actions/authenticationcode",
                       "{\"authNum\":" \o auth_code \o "}", fn)
    IN  _await_topic_once(s2, t, auth_code_topic, fn, "verify_auth_code:code")

\* from the reply on the authenticationcode topic, s.val, to the await of
\* the token
auth_code_checked(s, t) ==
    LET fn == "verify_auth_code"
        j == json_loads(s.val)
    IN  IF j.ok /\ j.kind # "dict" THEN Raise(s, "AttributeError")
        ELSE IF ~(j.ok /\ HasKey(j.d, "result") /\ j.d.result = 1)
             THEN Raise(s, "RuntimeError: Authentication failed")
        ELSE
        LET s1 == _publish(s, s.topicTVPSBasepath \o "data/gettoken",
                           "{\"refreshtoken\": \"\"}", fn)
            s2 == _publish(s1, s.topicTVUIBasepath
                                    \o "actions/authenticationcodeclose",
                           EmptyPayload, fn)
        IN  _await_topic_once(s2, t, s.frame.callback_topic, fn,
                              "verify_auth_code:token")

verify_auth_code_checked(s, t) ==
    IF ~Running(s) THEN s
    ELSE auth_code_checked(
            Emit(s, "reply", "verify_auth_code",
                 s.topicMobiBasepath \o "ui_service/data/authenticationcode",
                 s.val), t)

\* return self.accesstoken
returns_accesstoken(a) ==
    IF a.exc # NoExc THEN a ELSE [a EXCEPT !.val = a.accesstoken]

\* self.authenticated = True; return self.accesstoken
authenticate(a) ==
    IF a.exc # NoExc THEN a
    ELSE [a EXCEPT !.authenticated = TRUE, !.val = a.accesstoken]

\* token_issued without authenticated = True
token_issued_unmarked(s) ==
    IF ~Running(s) THEN s
    ELSE IF ~json_loads(s.val).ok THEN Raise(s, "JSONDecodeError")
    ELSE IF json_loads(s.val).kind # "dict" THEN Raise(s, "AttributeError")
    ELSE returns_accesstoken(_apply_credentials(s, json_loads(s.val).d))

\* json.loads(payload); credentials.update(...); _apply_credentials;
\* authenticated = True; return self.accesstoken
token_issued(s) ==
    IF ~Running(s) THEN s
    ELSE IF ~json_loads(s.val).ok THEN Raise(s, "JSONDecodeError")
    ELSE IF json_loads(s.val).kind # "dict" THEN Raise(s, "AttributeError")
    ELSE authenticate(_apply_credentials(s, json_loads(s.val).d))

\* the operation ends where its coroutine ran to its end
done(s) == IF Running(s) THEN [s EXCEPT !.next = "idle"] ELSE s

\* a, with the token payload that was received noted
token_received(a, received, payload) ==
    IF received
    THEN [a EXCEPT !.trace = Append(@,
            Ev(a, "token_received", "verify_auth_code", None, payload))]
    ELSE a

verify_auth_code_issued(s) ==
    done(token_received(token_issued(s), Running(s), s.val))

(***************************************************************************)
(* Session                                                                 *)
(***************************************************************************)
json_dumps_refreshtoken(tok) == "{\"refreshtoken\": \"" \o tok \o "\"}"

\* where a refresh_token call ends, by return or by raise
refresh_end(s, payload, returned) ==
    IF s.exc # NoExc
    THEN [s EXCEPT !.trace = Append(@,
            [Ev(s, "refresh_failed", "refresh_token", None, payload)
                EXCEPT !.before = s.snap.tokens])]
    ELSE IF returned
    THEN [s EXCEPT !.trace = Append(@,
            [Ev(s, "refresh_ok", "refresh_token", None, payload)
                EXCEPT !.before = s.snap.tokens])]
    ELSE s

refresh_token_connected(s, t) ==
    IF ~Running(s) THEN s
    ELSE
    LET fn == "refresh_token"
        token_topic ==
            s.topicMobiBasepath \o "platform_service/data/tokenissuance"
        s1 == _subscribe(s, token_topic, fn)
        s2 == _publish(s1, "/remoteapp/tv/platform_service/" \o s.client_id
                                \o "/data/gettoken",
                       json_dumps_refreshtoken(s.refreshtoken), fn)
    IN  _await_topic_once(s2, t, token_topic, fn, "refresh_token:token")

refresh_token(s, t) ==
    IF ~Running(s) THEN s
    ELSE
    LET fn == "refresh_token"
        s0 == [Emit(s, "refresh_begin", fn, None, None)
                    EXCEPT !.snap.tokens = Tokens(s)]
    IN  IF ~(Truthy(s.client_id) /\ Truthy(s.username)
                /\ Truthy(s.refreshtoken))
        THEN refresh_end(Raise(s0, "AssertionError"), None, FALSE)
        ELSE
        LET s1 == StopClient(s0, fn)
            s2 == ensure_connected(s1, t, s1.username, s1.refreshtoken,
                                   s1.client_id, fn, "refresh_token:connect")
        IN  refresh_end(refresh_token_connected(s2, t), None, FALSE)

refresh_token_issued(s) == refresh_end(token_issued(s), s.val, TRUE)

TokenExpiry(s) ==
    s.accesstoken_time + (s.accesstoken_duration_day * 24 * 60 * 60)

\* the comparison with the boundary instant counted as expired
TokenStillValidStrict(s, now) == now < TokenExpiry(s)

TokenStillValid(s, now) == now <= TokenExpiry(s)

check_and_refresh_token(s, t, now) ==
    IF ~Running(s) THEN s
    ELSE IF ~(Truthy(s.accesstoken) /\ TruthyInt(s.accesstoken_time)
                /\ TruthyInt(s.accesstoken_duration_day))
         THEN Raise(s, "AssertionError")
    ELSE
    LET s1 == [s EXCEPT !.trace = Append(@,
                 [Ev(s, "check", "check_and_refresh_token", None, None)
                     EXCEPT !.now = now])]
    IN  IF TokenStillValid(s, now)
        THEN [s1 EXCEPT !.val = s.accesstoken]
        ELSE refresh_token(s1, t)

connect_with_access_token(s, t) ==
    IF ~Running(s) THEN s
    ELSE IF ~(Truthy(s.username) /\ Truthy(s.client_id)
                /\ Truthy(s.accesstoken))
         THEN Raise(s, "AssertionError")
    ELSE IF s.is_connected /\ s.client # NoClient THEN s
    ELSE
    LET fn == "connect_with_access_token"
        s1 == IF s.client # NoClient
              THEN [StopClient(s, fn) EXCEPT !.is_connected = FALSE]
              ELSE s
        s2 == ensure_connected(s1, t, s1.username, s1.accesstoken,
                               s1.client_id, fn,
                               "connect_with_access_token:connect")
    IN  IF Running(s2) THEN [s2 EXCEPT !.is_connected = TRUE] ELSE s2

\* try: await self.ensure_connected(...); self.is_connected = True
\* except Exception: self.is_connected = False; raise
connect_with_access_token_resume(s, t) ==
    LET r == ensure_connected_resume(s, t)
    IN  IF r.exc # NoExc THEN [r EXCEPT !.is_connected = FALSE]
        ELSE [r EXCEPT !.is_connected = TRUE]

\* the head without the check for an access token
session_unchecked(s, t, now) ==
    IF ~Running(s) THEN s
    ELSE connect_with_access_token(check_and_refresh_token(s, t, now), t)

\* the head of _get_info and of _send_command
session(s, t, now) ==
    IF ~Running(s) THEN s
    ELSE IF Truthy(s.accesstoken)
         THEN connect_with_access_token(check_and_refresh_token(s, t, now), t)
    ELSE Raise(s, "RuntimeError: Not authenticated. Call generate_creds() first.")

(***************************************************************************)
(* Facade                                                                  *)
(***************************************************************************)
Queries == {"get_tv_state", "get_source_list", "get_volume", "get_app_list"}
Guarded == {"send_key", "change_source", "change_volume"}

callback_topic(s, q) ==
    CASE q = "get_source_list" ->
            s.topicMobiBasepath \o "ui_service/data/sourcelist"
      [] q = "get_volume" ->
            s.topicBrcsBasepath \o "platform_service/actions/volumechange"
      [] q = "get_app_list" ->
            s.topicMobiBasepath \o "ui_service/data/applist"
      [] OTHER -> s.topicBrcsBasepath \o "ui_service/state"

request_topic(s, q) ==
    CASE q = "get_source_list" -> s.topicTVUIBasepath \o "actions/sourcelist"
      [] q = "get_volume" -> s.topicTVPSBasepath \o "actions/getvolume"
      [] q = "get_app_list" -> s.topicTVUIBasepath \o "actions/applist"
      [] OTHER -> s.topicTVUIBasepath \o "actions/gettvstate"

command_topic(s, o) ==
    CASE o = "change_source" -> s.topicTVUIBasepath \o "actions/changesource"
      [] o = "change_volume" -> s.topicTVPSBasepath \o "actions/changevolume"
      [] OTHER -> s.topicRemoBasepath \o "actions/sendkey"

\* the command body of an operation, for the arguments the model calls
\* it with: send_key("KEY_OK"), change_source("3"), change_volume(10)
command_body_ok(o) ==
    CASE o = "change_source" -> "{\"sourceid\": \"3\"}"
      [] o = "change_volume" -> "10"
      [] OTHER -> "KEY_OK"

command_body(o) ==
    CASE o = "send_key" -> "KEY_OK"
      [] o = "change_source" -> "{\"sourceid\": \"3\"}"
      [] o = "change_volume" -> "10"
      [] OTHER -> "KEY_POWER"

\* _get_info after the session part: subscribe and publish the request
_get_info_request(s) ==
    IF ~Running(s) THEN s
    ELSE _publish(_subscribe(s, s.frame.callback_topic, "_get_info"),
                  s.frame.publish_topic, EmptyPayload, "_get_info")

\* then await the reply
_get_info_wait(s, t) ==
    IF ~Running(s) THEN s
    ELSE _await_topic_once(s, t, s.frame.callback_topic, "_get_info",
                           "_get_info:reply")

\* both on the event loop, with no callback of the network thread between
_get_info_exchange(s, t) == _get_info_wait(_get_info_request(s), t)

\* the request is out and the event loop has not yet reached
\* _await_topic_once: the network thread may run _on_message here
_get_info_published(s) ==
    IF ~Running(s) THEN s
    ELSE LET a == _get_info_request(s)
         IN  IF ~Running(a) THEN a
             ELSE [a EXCEPT !.next = "_get_info:published",
                            !.snap.replied = FALSE]

_get_info_frame(s, callback, publish) ==
    [s EXCEPT !.frame.fn = "_get_info",
              !.frame.callback_topic = callback,
              !.frame.publish_topic = publish,
              !.frame.command = None]

_get_info(s, t, now, callback, publish) ==
    _get_info_exchange(session(_get_info_frame(s, callback, publish), t, now),
                       t)

\* json.loads(payload), or None for a payload that is not JSON
_get_info_parsed(s) ==
    IF json_loads(s.val).ok THEN s ELSE [s EXCEPT !.val = None]

_get_info_reply(s) ==
    IF ~Running(s) THEN s
    ELSE _get_info_parsed(
            Emit(s, "reply", "_get_info", s.frame.callback_topic, s.val))

\* a command that went out is noted with the call
sent(s, a) ==
    IF a.exc # NoExc THEN a
    ELSE [a EXCEPT !.snap.sent =
                Append(@, [topic |-> s.frame.publish_topic,
                           payload |-> s.frame.command])]

_send_command_publish(s) ==
    IF ~Running(s) THEN s
    ELSE sent(s, _publish(s, s.frame.publish_topic, s.frame.command,
                          "_send_command"))

_send_command(s, t, now, publish, command) ==
    LET s1 == [s EXCEPT !.frame.fn = "_send_command",
                        !.frame.callback_topic = None,
                        !.frame.publish_topic = publish,
                        !.frame.command = command]
    IN  _send_command_publish(session(s1, t, now))

\* the operation after its _send_command returned
command_sent(s) ==
    IF ~Running(s) THEN s
    ELSE [s EXCEPT !.next = "idle",
                   !.val = IF s.op \in {"power_cycle_tv", "turn_on",
                                         "turn_off"}
                           THEN None ELSE "True"]

\* state = await self.get_tv_state()
seen(s) == [s EXCEPT !.frame.state = s.val]

\* state.get("statetype") == "fake_sleep_0"
IsOff(text) ==
    /\ HasKey(json_loads(text).d, "statetype")
    /\ json_loads(text).d.statetype = "fake_sleep_0"

\* the checks without the one for fake_sleep_0
unless_falsy(s, t, now, publish, command) ==
    IF Falsy(s.frame.state) THEN [s EXCEPT !.next = "idle", !.val = "False"]
    ELSE IF json_loads(s.frame.state).kind # "dict"
         THEN Raise(s, "AttributeError")
    ELSE command_sent(_send_command(s, t, now, publish, command))

\* the off-check of send_key, change_source, change_volume and launch_app on
\* the state reply held, and the command that follows it
unless_off(s, t, now, publish, command) ==
    IF Falsy(s.frame.state) THEN [s EXCEPT !.next = "idle", !.val = "False"]
    ELSE IF json_loads(s.frame.state).kind # "dict"
         THEN Raise(s, "AttributeError")
    ELSE IF IsOff(s.frame.state)
         THEN [s EXCEPT !.next = "idle", !.val = "False"]
    ELSE command_sent(_send_command(s, t, now, publish, command))

\* json.dumps({"appId": app_id, "name": resolved_name, "url": app_url})
json_dumps_launchapp(app) ==
    "{\"appId\": \"" \o app.appId \o "\", \"name\": \"" \o app.name
        \o "\", \"url\": \"" \o app.url \o "\"}"

\* the entries of the app list whose name is the requested one but for
\* letter case
Matching(app_list, app_name) ==
    {i \in 1..Len(app_list) :
        upper(Get(app_list[i], "name")) = upper(app_name)}

FirstOf(S) == CHOOSE i \in S : \A j \in S : i <= j

\* the matching loop of launch_app with the entry it breaks on
resolve_every(app_list, app_name) ==
    IF app_list = <<>> THEN [NoApp EXCEPT !.name = app_name]
    ELSE [appId |-> Get(app_list[1], "appId"),
          name |-> Get(app_list[1], "name"),
          url |-> Get(app_list[1], "url")]

resolve(app_list, app_name) ==
    IF Matching(app_list, app_name) = {}
    THEN [NoApp EXCEPT !.name = app_name]
    ELSE [appId |-> Get(app_list[FirstOf(Matching(app_list, app_name))],
                        "appId"),
          name |-> Get(app_list[FirstOf(Matching(app_list, app_name))],
                       "name"),
          url |-> Get(app_list[FirstOf(Matching(app_list, app_name))],
                      "url")]

\* launch_app once an app was resolved: without id or url it gives up, else
\* it asks for the state
launch_app_resolved(s, t, now) ==
    IF ~Truthy(s.frame.app.appId) \/ ~Truthy(s.frame.app.url)
    THEN [s EXCEPT !.next = "idle", !.val = "False"]
    ELSE _get_info(s, t, now, callback_topic(s, "get_tv_state"),
                   request_topic(s, "get_tv_state"))

\* launch_app after get_app_list returned s.val
launch_app_listed(s, t, now) ==
    IF Falsy(s.val) THEN [s EXCEPT !.next = "idle", !.val = "False"]
    ELSE IF json_loads(s.val).kind # "list" THEN Raise(s, "AttributeError")
    ELSE launch_app_resolved(
            [s EXCEPT !.frame.app =
                        resolve(json_loads(s.val).d, s.frame.app_name)],
            t, now)

\* "statetype" in tv_state
HasStatetype(text) ==
    /\ json_loads(text).kind = "dict"
    /\ HasKey(json_loads(text).d, "statetype")

\* a power cycle whatever the state held says
turn_always(s, t, now) ==
    IF Falsy(s.frame.state) THEN [s EXCEPT !.next = "idle", !.val = None]
    ELSE command_sent(_send_command(s, t, now,
                                    command_topic(s, "power_cycle_tv"),
                                    command_body("power_cycle_tv")))

\* turn_on and turn_off after get_tv_state returned: a power cycle when the
\* state held is not the wanted one
turn(s, t, now) ==
    IF Falsy(s.frame.state) \/ ~HasStatetype(s.frame.state)
        \/ (s.op = "turn_on") # IsOff(s.frame.state)
    THEN [s EXCEPT !.next = "idle", !.val = None]
    ELSE command_sent(_send_command(s, t, now,
                                    command_topic(s, "power_cycle_tv"),
                                    command_body("power_cycle_tv")))

\* the operation after its _get_info returned s.val
info_received(s, t, now) ==
    IF ~Running(s) THEN s
    ELSE IF s.op \in Queries THEN [s EXCEPT !.next = "idle"]
    ELSE IF s.op \in {"turn_on", "turn_off"} THEN turn(seen(s), t, now)
    ELSE IF s.op = "launch_app"
         THEN IF s.frame.callback_topic = callback_topic(s, "get_app_list")
              THEN launch_app_listed(s, t, now)
              ELSE unless_off(seen(s), t, now,
                              s.topicTVUIBasepath \o "actions/launchapp",
                              json_dumps_launchapp(s.frame.app))
    ELSE unless_off(seen(s), t, now, command_topic(s, s.op), command_body(s.op))

\* what follows the session part of _get_info / _send_command when the
\* session part had to wait
exchange(s, t) ==
    IF ~Running(s) THEN s
    ELSE IF s.op = "async_setup_entry" THEN [s EXCEPT !.next = "idle"]
    ELSE IF s.frame.fn = "_get_info" THEN _get_info_exchange(s, t)
    ELSE command_sent(_send_command_publish(s))

\* what follows a refresh_token that returned
refreshed(s, t) ==
    IF ~Running(s) THEN s
    ELSE IF s.op = "check_and_refresh_token" THEN [s EXCEPT !.next = "idle"]
    ELSE exchange(connect_with_access_token(s, t), t)

(***************************************************************************)
(* The coordinator's update function and the media player entity: callers  *)
(* of the controller that catch what it raises.  frame.stage is the call   *)
(* of the controller the caller is in.                                     *)
(***************************************************************************)
EntityOps == {"async_update_data", "async_turn_on", "async_turn_off"}

OfflineRecord ==
    "{\"statetype\": \"fake_sleep_0\", \"volume\": null, \"sources\": [], \"apps\": []}"

\* the state dict with the keys volume, sources and apps set to None, [], []
with_extras(text) ==
    CASE text = StateOff -> OfflineRecord
      [] text = StateOn ->
            "{\"statetype\": \"livetv\", \"volume\": null, \"sources\": [], \"apps\": []}"
      [] OTHER -> text \o " | {\"volume\": null, \"sources\": [], \"apps\": []}"

At(s, stage) == [s EXCEPT !.frame.stage = stage]

\* the call of the controller is still waiting
Suspended(a) == a.exc = NoExc /\ a.next # "run"

\* "except Exception" lets CancelledError pass: it is a BaseException
Passes(a) == a.exc = "CancelledError"

Returns(a, value) ==
    [a EXCEPT !.exc = NoExc, !.next = "idle", !.val = value]

\* what follows the session part of the _get_info or _send_command the
\* caller is in; a connect or token check the caller made itself ends here
after_session(a, t) ==
    IF ~Running(a) \/ a.frame.stage \in {"connect", "check"} THEN a
    ELSE IF a.frame.fn = "_get_info" THEN _get_info_exchange(a, t)
    ELSE _send_command_publish(a)

after_check(a, t) ==
    IF ~Running(a) \/ a.frame.stage = "check" THEN a
    ELSE after_session(connect_with_access_token(a, t), t)

\* the controller's call continues after the wait at label
within(s, t, label) ==
    CASE label = "entity:connect_with_access_token:connect" ->
            after_session(connect_with_access_token_resume(s, t), t)
      [] label = "entity:refresh_token:connect" ->
            refresh_end(
                refresh_token_connected(ensure_connected_resume(s, t), t),
                None, FALSE)
      [] label = "entity:refresh_token:token" ->
            after_check(refresh_token_issued(_await_topic_once_resume(s, t)),
                        t)
      [] label = "entity:_get_info:reply" ->
            _get_info_reply(_await_topic_once_resume(s, t))
      [] OTHER -> s

\* the wait of the controller, as a wait of the caller
waits(a) == [a EXCEPT !.next = "entity:" \o a.next]

get_tv_state(s, t, now, stage) ==
    _get_info(At(s, stage), t, now, callback_topic(s, "get_tv_state"),
              request_topic(s, "get_tv_state"))

\* async_update_data from the state it received: asyncio is not imported in
\* the module, so the gather for a device that is on raises NameError, which
\* is caught and gives the same three values as for a device that is off
update_received(a) ==
    IF Falsy(a.val) THEN Returns(a, OfflineRecord)
    ELSE IF json_loads(a.val).kind # "dict" THEN Returns(a, OfflineRecord)
    ELSE Returns(seen(a), with_extras(a.val))

update_state_ended(a) ==
    IF Passes(a) THEN a
    ELSE IF Suspended(a) THEN waits(a)
    ELSE IF a.exc # NoExc THEN Returns(a, OfflineRecord)
    ELSE update_received(a)

update_check_ended(a, t, now) ==
    IF Passes(a) THEN a
    ELSE IF Suspended(a) THEN waits(a)
    ELSE update_state_ended(
            get_tv_state([a EXCEPT !.exc = NoExc], t, now, "state"))

update_connect_ended(a, t, now) ==
    IF Passes(a) THEN a
    ELSE IF Suspended(a) THEN waits(a)
    ELSE IF a.exc # NoExc THEN Returns(a, OfflineRecord)
    ELSE update_check_ended(check_and_refresh_token(At(a, "check"), t, now),
                            t, now)

async_update_data(s, t, now) ==
    IF ~s.is_connected
    THEN update_connect_ended(connect_with_access_token(At(s, "connect"), t),
                              t, now)
    ELSE update_check_ended(check_and_refresh_token(At(s, "check"), t, now),
                            t, now)

\* async_turn_on and async_turn_off: "except Exception" logs and returns
turn_state2_ended(a) ==
    IF Passes(a) THEN a
    ELSE IF Suspended(a) THEN waits(a)
    ELSE IF a.exc # NoExc THEN Returns(a, None)
    ELSE Returns(Emit(a, "async_request_refresh", a.op, None, None), None)

\* await asyncio.sleep(...)
turn_power_ended(a) ==
    IF Passes(a) THEN a
    ELSE IF Suspended(a) THEN waits(a)
    ELSE IF a.exc # NoExc THEN Returns(a, None)
    ELSE [At(a, "sleep") EXCEPT !.next = "entity:sleep"]

power_cycle_tv(s, t, now) ==
    _send_command(At(s, "power"), t, now, command_topic(s, "power_cycle_tv"),
                  command_body("power_cycle_tv"))

\* _ensure_connection returned: False after a failed reconnect
turn_connect_ended(a, t, now) ==
    IF Passes(a) THEN a
    ELSE IF Suspended(a) THEN waits(a)
    ELSE IF a.exc # NoExc THEN Returns(a, None)
    ELSE turn_power_ended(power_cycle_tv(a, t, now))

_ensure_connection(s, t) ==
    IF ~s.is_connected THEN connect_with_access_token(At(s, "connect"), t)
    ELSE At(s, "connect")

turn_state1_ended(a, t, now) ==
    IF Passes(a) THEN a
    ELSE IF Suspended(a) THEN waits(a)
    ELSE IF a.exc # NoExc THEN Returns(a, None)
    ELSE turn_connect_ended(_ensure_connection(seen(a), t), t, now)

\* the caller after the call of the controller it was in
ended(a, t, now) ==
    IF a.op = "async_update_data"
    THEN CASE a.frame.stage = "connect" -> update_connect_ended(a, t, now)
           [] a.frame.stage = "check" -> update_check_ended(a, t, now)
           [] OTHER -> update_state_ended(a)
    ELSE CASE a.frame.stage = "state1" -> turn_state1_ended(a, t, now)
           [] a.frame.stage = "connect" -> turn_connect_ended(a, t, now)
           [] a.frame.stage = "power" -> turn_power_ended(a)
           [] a.frame.stage = "sleep" ->
                turn_state2_ended(get_tv_state(a, t, now, "state2"))
           [] OTHER -> turn_state2_ended(a)

(***************************************************************************)
(* Steps                                                                   *)
(***************************************************************************)
\* what stays noted when a call has ended
noted(s) ==
    [s.snap EXCEPT
        !.tokens = NoTokens,
        !.sent = <<>>,
        !.failed = @ \/ (s.exc # NoExc
                            /\ s.op \in {"request_auth_code",
                                         "verify_auth_code"})]

Commit(s, t) ==
    LET finished == s.exc # NoExc \/ s.next \in {"idle", "run"}
        f == IF ~finished THEN s
             ELSE IF s.exc # NoExc
                  THEN Emit(s, "raise", s.op, None, s.exc)
                  ELSE Emit(s, "return", s.op, None, s.val)
    IN  /\ client' = f.client
        /\ orphans' = f.orphans
        /\ is_connected' = f.is_connected
        /\ connected_evt' = f.connected_evt
        /\ topic_waiters' = f.topic_waiters
        /\ subscriptions' = f.subscriptions
        /\ accesstoken' = f.accesstoken
        /\ accesstoken_time' = f.accesstoken_time
        /\ accesstoken_duration_day' = f.accesstoken_duration_day
        /\ refreshtoken' = f.refreshtoken
        /\ refreshtoken_time' = f.refreshtoken_time
        /\ refreshtoken_duration_day' = f.refreshtoken_duration_day
        /\ client_id' = f.client_id
        /\ username' = f.username
        /\ password' = f.password
        /\ timestamp' = f.timestamp
        /\ authenticated' = f.authenticated
        /\ topicTVUIBasepath' = f.topicTVUIBasepath
        /\ topicTVPSBasepath' = f.topicTVPSBasepath
        /\ topicMobiBasepath' = f.topicMobiBasepath
        /\ topicBrcsBasepath' = f.topicBrcsBasepath
        /\ topicRemoBasepath' = f.topicRemoBasepath
        /\ fut' = f.fut
        /\ trace' = f.trace
        /\ pc' = [pc EXCEPT ![t] = IF finished THEN "idle" ELSE f.next]
        /\ op' = [op EXCEPT ![t] = IF finished THEN "none" ELSE f.op]
        /\ inner' = [inner EXCEPT ![t] = IF finished THEN NoFrame ELSE f.frame]
        /\ snap' = [snap EXCEPT ![t] = IF finished
                                        THEN noted(f)
                                        ELSE f.snap]

Begin(t, o) == [Of(t) EXCEPT !.op = o]

\* a task may start an operation
Idle(t) == pc[t] = "idle" /\ calls < MaxCalls

Ended(t) == fut[t].state \in {"done", "cancelled", "timeout"}

CallRequestAuthCode(t, nows, flags) ==
    /\ Idle(t)
    /\ \E now \in nows, mac \in Macs, new_auth \in flags :
        Commit(request_auth_code(Begin(t, "request_auth_code"), t, now, mac,
                                 new_auth), t)
    /\ calls' = calls + 1
    /\ UNCHANGED entry

CallVerifyAuthCode(t) ==
    /\ Idle(t)
    /\ Commit(verify_auth_code(Begin(t, "verify_auth_code"), t, "1234"), t)
    /\ calls' = calls + 1
    /\ UNCHANGED entry

CallCheckAndRefreshToken(t, nows) ==
    /\ Idle(t)
    /\ \E now \in nows :
        LET s == check_and_refresh_token(
                    Begin(t, "check_and_refresh_token"), t, now)
        IN  Commit(IF Running(s) THEN [s EXCEPT !.next = "idle"] ELSE s, t)
    /\ calls' = calls + 1
    /\ UNCHANGED entry

CallQuery(t, queries, nows) ==
    /\ Idle(t)
    /\ \E q \in queries, now \in nows :
        LET s == Begin(t, q)
        IN  Commit(_get_info(s, t, now, callback_topic(s, q),
                             request_topic(s, q)), t)
    /\ calls' = calls + 1
    /\ UNCHANGED entry

\* a query up to the request it publishes
CallQueryRequest(t, queries, nows) ==
    /\ Idle(t)
    /\ \E q \in queries, now \in nows :
        LET s == Begin(t, q)
        IN  Commit(_get_info_published(
                    session(_get_info_frame(s, callback_topic(s, q),
                                            request_topic(s, q)), t, now)), t)
    /\ calls' = calls + 1
    /\ UNCHANGED entry

\* the event loop goes on into _await_topic_once
ResumeGetInfoPublished(t) ==
    /\ pc[t] = "_get_info:published"
    /\ Commit(_get_info_wait(Of(t), t), t)
    /\ UNCHANGED << entry, calls >>

CallGuarded(t, guarded, nows) ==
    /\ Idle(t)
    /\ \E o \in guarded, now \in nows :
        LET s == Begin(t, o)
        IN  Commit(_get_info(s, t, now, callback_topic(s, "get_tv_state"),
                             request_topic(s, "get_tv_state")), t)
    /\ calls' = calls + 1
    /\ UNCHANGED entry

AppNames == {"youtube", "Prime"}

CallLaunchApp(t, names, nows) ==
    /\ Idle(t)
    /\ \E app_name \in names, now \in nows :
        LET s == [Begin(t, "launch_app") EXCEPT !.frame.app_name = app_name]
        IN  Commit(_get_info(s, t, now, callback_topic(s, "get_app_list"),
                             request_topic(s, "get_app_list")), t)
    /\ calls' = calls + 1
    /\ UNCHANGED entry

CallTurn(t, nows) ==
    /\ Idle(t)
    /\ \E o \in {"turn_on", "turn_off"}, now \in nows :
        LET s == Begin(t, o)
        IN  Commit(_get_info(s, t, now, callback_topic(s, "get_tv_state"),
                             request_topic(s, "get_tv_state")), t)
    /\ calls' = calls + 1
    /\ UNCHANGED entry

CallPowerCycleTv(t, nows) ==
    /\ Idle(t)
    /\ \E now \in nows :
        LET s == Begin(t, "power_cycle_tv")
        IN  Commit(command_sent(
                    _send_command(s, t, now, command_topic(s, "power_cycle_tv"),
                                  command_body("power_cycle_tv"))), t)
    /\ calls' = calls + 1
    /\ UNCHANGED entry

ResumeRequestAuthCodeConnect(t) ==
    /\ pc[t] = "request_auth_code:connect" /\ Ended(t)
    /\ Commit(request_auth_code_connected(ensure_connected_resume(Of(t), t), t),
              t)
    /\ UNCHANGED << entry, calls >>

ResumeRequestAuthCodeAuth(t) ==
    /\ pc[t] = "request_auth_code:auth" /\ Ended(t)
    /\ Commit(request_auth_code_acked(_await_topic_once_resume(Of(t), t)), t)
    /\ UNCHANGED << entry, calls >>

ResumeVerifyAuthCodeCode(t) ==
    /\ pc[t] = "verify_auth_code:code" /\ Ended(t)
    /\ Commit(verify_auth_code_checked(_await_topic_once_resume(Of(t), t), t),
              t)
    /\ UNCHANGED << entry, calls >>

\* the end of verify_auth_code, and of the config flow's step that awaits
\* it: async_create_entry with the three identity fields
async_step_authcode(s) ==
    IF s.exc # NoExc THEN entry
    ELSE [created |-> TRUE,
          credentials |-> [client_id |-> s.client_id,
                           username |-> s.username,
                           password |-> s.password]]

ResumeVerifyAuthCodeToken(t) ==
    /\ pc[t] = "verify_auth_code:token" /\ Ended(t)
    /\ Commit(verify_auth_code_issued(_await_topic_once_resume(Of(t), t)), t)
    /\ entry' = async_step_authcode(
                    verify_auth_code_issued(
                        _await_topic_once_resume(Of(t), t)))
    /\ UNCHANGED calls

ResumeRefreshTokenConnect(t) ==
    /\ pc[t] = "refresh_token:connect" /\ Ended(t)
    /\ Commit(refresh_end(
                refresh_token_connected(ensure_connected_resume(Of(t), t), t),
                None, FALSE), t)
    /\ UNCHANGED << entry, calls >>

ResumeRefreshTokenToken(t) ==
    /\ pc[t] = "refresh_token:token" /\ Ended(t)
    /\ Commit(refreshed(
                refresh_token_issued(_await_topic_once_resume(Of(t), t)), t),
              t)
    /\ UNCHANGED << entry, calls >>

ResumeConnectWithAccessToken(t) ==
    /\ pc[t] = "connect_with_access_token:connect" /\ Ended(t)
    /\ Commit(exchange(connect_with_access_token_resume(Of(t), t), t), t)
    /\ UNCHANGED << entry, calls >>

ResumeGetInfoReply(t, nows) ==
    /\ pc[t] = "_get_info:reply" /\ Ended(t)
    /\ \E now \in nows :
        Commit(info_received(
                _get_info_reply(_await_topic_once_resume(Of(t), t)), t, now),
               t)
    /\ UNCHANGED << entry, calls >>

CallAsyncUpdateData(t, nows) ==
    /\ Idle(t)
    /\ \E now \in nows :
        Commit(async_update_data(Begin(t, "async_update_data"), t, now), t)
    /\ calls' = calls + 1
    /\ UNCHANGED entry

CallAsyncTurn(t, nows) ==
    /\ Idle(t)
    /\ \E o \in {"async_turn_on", "async_turn_off"}, now \in nows :
        Commit(turn_state1_ended(
                get_tv_state(Begin(t, o), t, now, "state1"), t, now), t)
    /\ calls' = calls + 1
    /\ UNCHANGED entry

EntityLabels ==
    {"entity:connect_with_access_token:connect",
     "entity:refresh_token:connect", "entity:refresh_token:token",
     "entity:_get_info:reply"}

ResumeEntity(t, nows) ==
    /\ \/ pc[t] \in EntityLabels /\ Ended(t)
       \/ pc[t] = "entity:sleep"
    /\ \E now \in nows :
        Commit(ended(within(Of(t), t, pc[t]), t, now), t)
    /\ UNCHANGED << entry, calls >>

(***************************************************************************)
(* Environment: the broker and the device, through paho's callbacks; and   *)
(* the timers of asyncio.wait_for                                          *)
(***************************************************************************)
ClientIds == {mac \o "$his$"
                  \o First6(string_to_hash(
                        "38D65DC30F45109A369A86FCE866A85B$" \o mac))
                  \o "_vidaacommon_001" : mac \in Macs} \cup {None}

Mobi(path) == {"/remoteapp/mobile/" \o c \o "/" \o path : c \in ClientIds}
Brcs(path) == "/remoteapp/mobile/broadcast/" \o path

\* what the device sends on a topic
PayloadsOn(topic) ==
    IF topic \in Mobi("ui_service/data/authentication")
        THEN {AuthAck, AuthAckPadded, Garbage}
    ELSE IF topic \in Mobi("ui_service/data/authenticationcode")
        THEN {Result1, Result0, StateEmpty, AuthAck, Garbage}
    ELSE IF topic \in Mobi("platform_service/data/tokenissuance")
        THEN {Token1, Token2, TokenPartial, Garbage}
    ELSE IF topic = Brcs("ui_service/state")
        THEN {StateOff, StateOn, StateEmpty, Garbage}
    ELSE IF topic = Brcs("platform_service/actions/volumechange")
        THEN {Volume10, Garbage}
    ELSE IF topic \in Mobi("ui_service/data/sourcelist")
        THEN {SourceList, Garbage}
    ELSE IF topic \in Mobi("ui_service/data/applist")
        THEN {AppList, Garbage}
    ELSE {Garbage}

Started == (IF client = NoClient THEN {} ELSE {client}) \cup orphans

\* the callback's writes to the client object it is called with
Touch(c, d) ==
    /\ client' = IF c = client THEN d ELSE client
    /\ orphans' = IF c = client THEN orphans ELSE (orphans \ {c}) \cup {d}

\* _on_connect with rc == 0; Event.set() resolves the futures of its waiters
on_connect(c) ==
    /\ c \in Started /\ ~c.connected
    /\ Touch(c, [c EXCEPT !.connected = TRUE])
    /\ is_connected' = TRUE
    /\ connected_evt' = TRUE
    /\ fut' = [t \in Tasks |->
                IF fut[t].state = "pending" /\ fut[t].topic = None
                THEN [fut[t] EXCEPT !.state = "done"] ELSE fut[t]]
    /\ trace' = <<>>
    /\ UNCHANGED << topic_waiters, subscriptions, accesstoken, accesstoken_time,
                    accesstoken_duration_day, refreshtoken, refreshtoken_time,
                    refreshtoken_duration_day, client_id, username, password,
                    timestamp, authenticated, topicTVUIBasepath,
                    topicTVPSBasepath, topicMobiBasepath, topicBrcsBasepath,
                    topicRemoBasepath, pc, op, inner, snap, entry, calls >>

\* _on_connect with rc != 0
on_connect_refused(c) ==
    /\ c \in Started /\ ~c.connected
    /\ is_connected' = FALSE
    /\ trace' = <<>>
    /\ UNCHANGED << client, orphans, connected_evt, fut, topic_waiters,
                    subscriptions, accesstoken, accesstoken_time,
                    accesstoken_duration_day, refreshtoken, refreshtoken_time,
                    refreshtoken_duration_day, client_id, username, password,
                    timestamp, authenticated, topicTVUIBasepath,
                    topicTVPSBasepath, topicMobiBasepath, topicBrcsBasepath,
                    topicRemoBasepath, pc, op, inner, snap, entry, calls >>

\* _on_disconnect; the session was clean, so the broker forgets the
\* client's subscriptions
on_disconnect(c) ==
    /\ c \in Started /\ c.connected
    /\ Touch(c, [c EXCEPT !.connected = FALSE, !.subs = {}])
    /\ is_connected' = FALSE
    /\ connected_evt' = FALSE
    /\ trace' = <<>>
    /\ UNCHANGED << fut, topic_waiters, subscriptions, accesstoken,
                    accesstoken_time, accesstoken_duration_day, refreshtoken,
                    refreshtoken_time, refreshtoken_duration_day, client_id,
                    username, password, timestamp, authenticated,
                    topicTVUIBasepath, topicTVPSBasepath, topicMobiBasepath,
                    topicBrcsBasepath, topicRemoBasepath, pc, op, inner, snap,
                    entry, calls >>

\* an _on_message that also forgets the waiter of a topic whose future is
\* done
on_message_forgetful(c, topic, payload) ==
    /\ c \in Started /\ c.connected /\ topic \in c.subs
    /\ fut' = IF Waiting(Cur, topic)
              THEN [fut EXCEPT ![topic_waiters[topic]] =
                        [@ EXCEPT !.state = "done", !.result = payload]]
              ELSE fut
    /\ topic_waiters' = IF Waiting(Cur, topic) THEN topic_waiters
                        ELSE PopWaiter(Cur, topic).topic_waiters
    /\ trace' = <<>>
    /\ UNCHANGED << client, orphans, is_connected, connected_evt,
                    subscriptions, accesstoken,
                    accesstoken_time, accesstoken_duration_day, refreshtoken,
                    refreshtoken_time, refreshtoken_duration_day, client_id,
                    username, password, timestamp, authenticated,
                    topicTVUIBasepath, topicTVPSBasepath, topicMobiBasepath,
                    topicBrcsBasepath, topicRemoBasepath, pc, op, inner, snap,
                    entry, calls >>

\* fut = self._topic_waiters.get(msg.topic);
\* if fut and not fut.done(): fut.set_result(payload)
set_result(topic, payload) ==
    IF Waiting(Cur, topic)
    THEN [fut EXCEPT ![topic_waiters[topic]] =
            [@ EXCEPT !.state = "done", !.result = payload]]
    ELSE fut

\* _on_message for a message the broker delivers to a connected client
on_message(c, topic, payload) ==
    /\ c \in Started /\ c.connected /\ topic \in c.subs
    /\ fut' = set_result(topic, payload)
    /\ trace' = <<>>
    /\ UNCHANGED << client, orphans, is_connected, connected_evt,
                    topic_waiters, subscriptions, accesstoken,
                    accesstoken_time, accesstoken_duration_day, refreshtoken,
                    refreshtoken_time, refreshtoken_duration_day, client_id,
                    username, password, timestamp, authenticated,
                    topicTVUIBasepath, topicTVPSBasepath, topicMobiBasepath,
                    topicBrcsBasepath, topicRemoBasepath, pc, op, inner, snap,
                    entry, calls >>

\* _on_message for the reply the device publishes to the request of t's
\* query, run by the network thread wherever the event loop is
reply(c, t, payload) ==
    /\ c \in Started /\ c.connected
    /\ pc[t] \in {"_get_info:published", "_get_info:reply"}
    /\ inner[t].callback_topic \in c.subs
    /\ fut' = set_result(inner[t].callback_topic, payload)
    /\ snap' = [snap EXCEPT ![t].replied = @ \/ fut[t].state # "timeout"]
    /\ trace' = <<>>
    /\ UNCHANGED << client, orphans, is_connected, connected_evt,
                    topic_waiters, subscriptions, accesstoken,
                    accesstoken_time, accesstoken_duration_day, refreshtoken,
                    refreshtoken_time, refreshtoken_duration_day, client_id,
                    username, password, timestamp, authenticated,
                    topicTVUIBasepath, topicTVPSBasepath, topicMobiBasepath,
                    topicBrcsBasepath, topicRemoBasepath, pc, op, inner,
                    entry, calls >>

\* a timer that exists only for the wait on the connected event
TimeoutOfConnect(t) ==
    /\ pc[t] # "idle" /\ fut[t].state = "pending" /\ fut[t].topic = None
    /\ fut' = [fut EXCEPT ![t].state = "timeout"]
    /\ trace' = <<>>
    /\ UNCHANGED << client, orphans, is_connected, connected_evt,
                    topic_waiters, subscriptions, accesstoken,
                    accesstoken_time, accesstoken_duration_day, refreshtoken,
                    refreshtoken_time, refreshtoken_duration_day, client_id,
                    username, password, timestamp, authenticated,
                    topicTVUIBasepath, topicTVPSBasepath, topicMobiBasepath,
                    topicBrcsBasepath, topicRemoBasepath, pc, op, inner, snap,
                    entry, calls >>

\* the timeout of asyncio.wait_for: the awaited future is cancelled and the
\* task is woken with TimeoutError
Timeout(t) ==
    /\ pc[t] # "idle" /\ fut[t].state = "pending"
    /\ fut' = [fut EXCEPT ![t].state = "timeout"]
    /\ trace' = <<>>
    /\ UNCHANGED << client, orphans, is_connected, connected_evt,
                    topic_waiters, subscriptions, accesstoken,
                    accesstoken_time, accesstoken_duration_day, refreshtoken,
                    refreshtoken_time, refreshtoken_duration_day, client_id,
                    username, password, timestamp, authenticated,
                    topicTVUIBasepath, topicTVPSBasepath, topicMobiBasepath,
                    topicBrcsBasepath, topicRemoBasepath, pc, op, inner, snap,
                    entry, calls >>

(***************************************************************************)
(* Specification                                                           *)
(***************************************************************************)
Init ==
    /\ client = NoClient
    /\ orphans = {}
    /\ is_connected = FALSE
    /\ connected_evt = FALSE
    /\ topic_waiters = EmptyMap
    /\ subscriptions = {}
    /\ accesstoken = None
    /\ accesstoken_time = NoneInt
    /\ accesstoken_duration_day = NoneInt
    /\ refreshtoken = None
    /\ refreshtoken_time = NoneInt
    /\ refreshtoken_duration_day = NoneInt
    /\ client_id = None
    /\ username = None
    /\ password = None
    /\ timestamp = NoneInt
    /\ authenticated = FALSE
    /\ topicTVUIBasepath = None
    /\ topicTVPSBasepath = None
    /\ topicMobiBasepath = None
    /\ topicBrcsBasepath = None
    /\ topicRemoBasepath = None
    /\ fut = [t \in Tasks |-> NoFuture]
    /\ pc = [t \in Tasks |-> "idle"]
    /\ op = [t \in Tasks |-> "none"]
    /\ inner = [t \in Tasks |-> NoFrame]
    /\ snap = [t \in Tasks |-> NoSnap]
    /\ trace = <<>>
    /\ entry = NoEntry
    /\ calls = 0

\* async_setup_entry: a new controller, which the variables describe from
\* here on, takes the place of the config flow's (that one and its clients
\* are left as they are); the stored credentials are read with dict.get,
\* and the first connection is tried and its failure logged
HisenseTVController(s) ==
    [s EXCEPT
        !.client = NoClient, !.orphans = {},
        !.is_connected = FALSE, !.connected_evt = FALSE,
        !.topic_waiters = EmptyMap, !.subscriptions = {},
        !.accesstoken = None, !.accesstoken_time = NoneInt,
        !.accesstoken_duration_day = NoneInt,
        !.refreshtoken = None, !.refreshtoken_time = NoneInt,
        !.refreshtoken_duration_day = NoneInt,
        !.client_id = None, !.username = None, !.password = None,
        !.timestamp = NoneInt, !.authenticated = FALSE,
        !.topicTVUIBasepath = None, !.topicTVPSBasepath = None,
        !.topicMobiBasepath = None, !.topicBrcsBasepath = None,
        !.topicRemoBasepath = None]

async_setup_entry(t) ==
    /\ entry.created
    /\ \A u \in Tasks : pc[u] = "idle"
    /\ LET credentials == entry.credentials
           s0 == HisenseTVController(Begin(t, "async_setup_entry"))
           s1 == [s0 EXCEPT
                    !.client_id = Get(credentials, "client_id"),
                    !.username = Get(credentials, "username"),
                    !.password = Get(credentials, "password"),
                    !.accesstoken = Get(credentials, "accesstoken"),
                    !.accesstoken_time =
                        GetInt(credentials, "accesstoken_time"),
                    !.accesstoken_duration_day =
                        GetInt(credentials, "accesstoken_duration_day"),
                    !.refreshtoken = Get(credentials, "refreshtoken"),
                    !.refreshtoken_time =
                        GetInt(credentials, "refreshtoken_time"),
                    !.refreshtoken_duration_day =
                        GetInt(credentials, "refreshtoken_duration_day")]
           s2 == Emit(_define_topic_paths(s1), "setup_entry",
                      "async_setup_entry", None, None)
           s3 == connect_with_access_token(s2, t)
       IN  Commit(IF s3.exc # NoExc THEN [s3 EXCEPT !.exc = NoExc]
                  ELSE IF Running(s3) THEN [s3 EXCEPT !.next = "idle"]
                  ELSE s3, t)
    /\ UNCHANGED << entry, calls >>

PairingStep(t, nows, flags) ==
    \/ CallRequestAuthCode(t, nows, flags)
    \/ CallVerifyAuthCode(t)
    \/ ResumeRequestAuthCodeConnect(t)
    \/ ResumeRequestAuthCodeAuth(t)
    \/ ResumeVerifyAuthCodeCode(t)
    \/ ResumeVerifyAuthCodeToken(t)
    \/ async_setup_entry(t)

SessionStep(t, queries, guarded, nows) ==
    \/ CallCheckAndRefreshToken(t, nows)
    \/ CallQuery(t, queries, nows)
    \/ CallGuarded(t, guarded, nows)
    \/ CallPowerCycleTv(t, nows)
    \/ ResumeRefreshTokenConnect(t)
    \/ ResumeRefreshTokenToken(t)
    \/ ResumeConnectWithAccessToken(t)
    \/ ResumeGetInfoReply(t, nows)

FacadeStep(t, names, nows) ==
    \/ CallLaunchApp(t, names, nows)
    \/ CallTurn(t, nows)

EntityStep(t, nows) ==
    \/ CallAsyncUpdateData(t, nows)
    \/ CallAsyncTurn(t, nows)
    \/ ResumeEntity(t, nows)

\* a broker that accepts every connection and keeps it
EnvUp ==
    \/ \E c \in Started : on_connect(c)
    \/ \E c \in Started : \E topic \in c.subs :
            \E payload \in PayloadsOn(topic) : on_message(c, topic, payload)
    \/ \E t \in Tasks : Timeout(t)

Env ==
    \/ EnvUp
    \/ \E c \in Started : on_connect_refused(c)
    \/ \E c \in Started : on_disconnect(c)

\* Every operation, by either task, on a controller as constructed
Next ==
    \/ \E t \in Tasks : PairingStep(t, Timestamps, BOOLEAN)
    \/ \E t \in Tasks : SessionStep(t, Queries, Guarded, NowValues)
    \/ Env

Spec == Init /\ [][Next]_vars

\* Pairing through the config flow, by one task, with every identity
NextPairing == PairingStep("t1", Timestamps, BOOLEAN) \/ Env

SpecPairing == Init /\ [][NextPairing]_vars

\* The operations of a paired controller, one at a time
NextSession == SessionStep("t1", Queries, Guarded, NowValues) \/ Env

\* All operations of a paired controller, by one task
FacadeNows == {81000, 91000}
NextFacade ==
    \/ SessionStep("t1", Queries, Guarded, FacadeNows)
    \/ FacadeStep("t1", AppNames, FacadeNows)
    \/ Env

\* The coordinator and the entity in one task, a caller of the controller
\* in the other
EntityNows == {81000, 91000}
EntityQueries == {"get_tv_state"}
EntityGuarded == {"send_key"}
NextEntity ==
    \/ EntityStep("t1", EntityNows)
    \/ SessionStep("t2", EntityQueries, EntityGuarded, EntityNows)
    \/ EnvUp

\* The operations of a paired controller, by two tasks, the connection
\* staying up
ConcurrentQueries == {"get_tv_state", "get_volume"}
ConcurrentGuarded == {"send_key"}
ConcurrentNows == {81000, 91000}
NextConcurrent ==
    \/ \E t \in Tasks :
        SessionStep(t, ConcurrentQueries, ConcurrentGuarded, ConcurrentNows)
    \/ EnvUp

\* The controller as a pairing leaves it: request_auth_code at 1000,
\* acknowledged, verify_auth_code answered with result 1 and Token1
PairedState ==
    LET blank == [client_id |-> None, username |-> None, password |-> None,
                  timestamp |-> NoneInt, exc |-> NoExc,
                  topicTVUIBasepath |-> None, topicTVPSBasepath |-> None,
                  topicMobiBasepath |-> None, topicBrcsBasepath |-> None,
                  topicRemoBasepath |-> None]
        ident == _define_topic_paths(
                    _define_hashes(blank, 1000, "aa:bb:cc:dd:ee:ff", FALSE))
        topics == { ident.topicBrcsBasepath \o "ui_service/state",
                    ident.topicMobiBasepath \o "ui_service/data/authentication",
                    ident.topicMobiBasepath
                        \o "ui_service/data/authenticationcode",
                    ident.topicBrcsBasepath
                        \o "ui_service/data/hotelmodechange",
                    ident.topicMobiBasepath
                        \o "platform_service/data/tokenissuance" }
    IN  /\ client = [client_id |-> ident.client_id,
                     username |-> ident.username,
                     password |-> ident.password,
                     running |-> TRUE, connected |-> TRUE, subs |-> topics]
        /\ orphans = {}
        /\ is_connected = TRUE
        /\ connected_evt = TRUE
        /\ topic_waiters = EmptyMap
        /\ subscriptions = topics
        /\ accesstoken = "A1"
        /\ accesstoken_time = 1000
        /\ accesstoken_duration_day = 1
        /\ refreshtoken = "R1"
        /\ refreshtoken_time = 1000
        /\ refreshtoken_duration_day = 30
        /\ client_id = ident.client_id
        /\ username = ident.username
        /\ password = ident.password
        /\ timestamp = 1000
        /\ authenticated = TRUE
        /\ topicTVUIBasepath = ident.topicTVUIBasepath
        /\ topicTVPSBasepath = ident.topicTVPSBasepath
        /\ topicMobiBasepath = ident.topicMobiBasepath
        /\ topicBrcsBasepath = ident.topicBrcsBasepath
        /\ topicRemoBasepath = ident.topicRemoBasepath
        /\ fut = [t \in Tasks |-> NoFuture]
        /\ pc = [t \in Tasks |-> "idle"]
        /\ op = [t \in Tasks |-> "none"]
        /\ inner = [t \in Tasks |-> NoFrame]
        /\ snap = [t \in Tasks |->
                    IF t = "t1"
                    THEN [NoSnap EXCEPT !.identity = Identity(ident)]
                    ELSE NoSnap]
        /\ trace = <<>>
        /\ entry = [created |-> TRUE,
                    credentials |-> [client_id |-> ident.client_id,
                                     username |-> ident.username,
                                     password |-> ident.password]]

Paired == PairedState /\ calls = 0

\* Pairing and the operations of a paired controller, by one task, on a
\* controller as constructed or as paired; the timers of asyncio.wait_for
\* fire and the event loop runs a task whose wait has ended
InitEither == Init \/ Paired

Resume(t) ==
    \/ ResumeRequestAuthCodeConnect(t)
    \/ ResumeRequestAuthCodeAuth(t)
    \/ ResumeVerifyAuthCodeCode(t)
    \/ ResumeVerifyAuthCodeToken(t)
    \/ ResumeRefreshTokenConnect(t)
    \/ ResumeRefreshTokenToken(t)
    \/ ResumeConnectWithAccessToken(t)
    \/ ResumeGetInfoReply(t, NowValues)

LiveQueries == {"get_tv_state"}

NextLive ==
    \/ PairingStep("t1", {1000}, {FALSE})
    \/ SessionStep("t1", LiveQueries, ConcurrentGuarded, ConcurrentNows)
    \/ Env

\* a task whose wait has ended is ready to run: exactly then Resume is enabled
Woken(t) == pc[t] # "idle" /\ Ended(t)

\* the second condition is weak fairness of Resume("t1"), written with Woken
\* as the enabling condition of Resume
SpecLive ==
    /\ InitEither
    /\ [][NextLive]_vars
    /\ WF_vars(Timeout("t1"))
    /\ ([]<>(~Woken("t1")) \/ []<><<Resume("t1")>>_vars)

SpecSession == Paired /\ [][NextSession]_vars
SpecFacade == Paired /\ [][NextFacade]_vars
SpecEntity == Paired /\ [][NextEntity]_vars

SpecConcurrent == Paired /\ [][NextConcurrent]_vars

\* Pairing, and every query and command, by one task on a controller that is
\* as constructed or paired
UnpairedNows == {81000, 91000}
NextUnpaired ==
    \/ PairingStep("t1", {1000}, {FALSE})
    \/ SessionStep("t1", Queries, Guarded, UnpairedNows)
    \/ FacadeStep("t1", AppNames, UnpairedNows)
    \/ Env

SpecUnpaired == InitEither /\ [][NextUnpaired]_vars

\* The queries of a paired controller whose token is valid, with the network
\* thread running _on_message between the steps of the event loop
ThreadNows == {81000}
NextThreads ==
    \/ CallQueryRequest("t1", Queries, ThreadNows)
    \/ ResumeGetInfoPublished("t1")
    \/ ResumeGetInfoReply("t1", ThreadNows)
    \/ \E c \in Started :
            \E payload \in PayloadsOn(inner["t1"].callback_topic) :
                reply(c, "t1", payload)
    \/ Timeout("t1")

SpecThreads == Paired /\ [][NextThreads]_vars

(***************************************************************************)
(* Properties                                                              *)
(***************************************************************************)
\* the events of the step just taken
Events == {trace[i] : i \in 1..Len(trace)}

Fields == {"accesstoken", "accesstoken_time", "accesstoken_duration_day",
           "refreshtoken", "refreshtoken_time", "refreshtoken_duration_day"}

\* a pairing as SpecPairing performs it ends in the state the
\* specifications of the paired controller start from
PairedReached == PairedState

\* C1: every message a query or a command operation publishes goes out on
\* a connection opened with the current access token as its password
C1_PublishedWithAccessToken ==
    \A e \in Events :
        (e.ev = "publish" /\ e.fn \in {"_get_info", "_send_command"})
            => e.password = e.tokens.accesstoken

Payloads == {AuthAck, AuthAckPadded, Result1, Result0, Garbage, Token1,
             Token2, TokenPartial,
             StateOff, StateOn, StateEmpty, Volume10, SourceList, AppList}

\* C2: when a second _await_topic_once call was started on a topic while a
\* first one was unresolved, the next message on that topic resolves the
\* second call with the message's payload
C2_NextMessageResolvesSecond ==
    [][\A t \in Tasks : \A c \in Started : \A payload \in Payloads :
        (/\ pc[t] # "idle"
         /\ fut[t].state = "pending"
         /\ fut[t].second
         /\ on_message(c, fut[t].topic, payload))
            => (fut'[t].state = "done" /\ fut'[t].result = payload)]_vars

\* C3: the caller of an _await_topic_once call that a later call on the
\* same topic replaced sees no exception from the replacement
C3_ReplacedCallSeesNoError ==
    \A e \in Events : e.ev = "raise" => e.payload # "CancelledError"

\* C4: a token refresh is all or nothing: where refresh_token returns, the
\* six token fields hold the payload's values; where it raises, they hold
\* the values they had when it was called
C4_RefreshAllOrNothing ==
    \A e \in Events :
        /\ e.ev = "refresh_ok" =>
                /\ json_loads(e.payload).ok
                /\ \A f \in Fields : HasKey(json_loads(e.payload).d, f)
                /\ \A f \in Fields : e.tokens[f] = json_loads(e.payload).d[f]
        /\ e.ev = "refresh_failed" => e.tokens = e.before

NetworkEvents == {"teardown", "connect", "subscribe", "publish"}

\* C5: check_and_refresh_token does nothing on the network while
\* now <= accesstoken_time + accesstoken_duration_day * 86400, the boundary
\* included, and starts exactly one refresh when now is past that bound
C5_RefreshOnlyWhenExpired ==
    \A i \in 1..Len(trace) :
        trace[i].ev = "check" =>
            LET e == trace[i]
                bound == e.tokens.accesstoken_time
                            + e.tokens.accesstoken_duration_day * SecondsPerDay
                refreshes == {j \in 1..Len(trace) :
                                trace[j].ev = "refresh_begin"}
                direct == \E r \in Events :
                            /\ r.ev \in {"return", "raise"}
                            /\ r.fn = "check_and_refresh_token"
            IN  IF e.now <= bound
                THEN /\ \A x \in Events : x.fn # "refresh_token"
                     /\ \A j \in 1..Len(trace) :
                            trace[j].fn = "check_and_refresh_token" =>
                                trace[j].ev \notin NetworkEvents
                     /\ direct => \A x \in Events : x.ev \notin NetworkEvents
                ELSE /\ Cardinality(refreshes) = 1
                     /\ \A j \in refreshes : j = i + 1

\* check_and_refresh_token was called at the boundary instant and returned
\* without a network action
C5_BoundaryChecked ==
    /\ \E e \in Events :
        /\ e.ev = "check"
        /\ e.now = e.tokens.accesstoken_time
                    + e.tokens.accesstoken_duration_day * SecondsPerDay
    /\ \E r \in Events : r.ev = "return" /\ r.fn = "check_and_refresh_token"
    /\ Len(trace) = 2

\* C6: at most one client of the controller is running at any moment
C6_AtMostOneClientRunning == Cardinality(Started) <= 1

\* C7: the session steps of concurrent facade operations are serialized:
\* at no time are two of them inside a token refresh or a connection open
C7_SessionStepsSerialized ==
    Cardinality({t \in Tasks :
                    /\ op[t] \in Queries \cup Guarded \cup {"power_cycle_tv"}
                    /\ pc[t] \in {"refresh_token:connect",
                                  "refresh_token:token",
                                  "connect_with_access_token:connect"}}) <= 1

\* C8: when the device sent a token payload with the six fields, pairing
\* returns with the token fields equal to the payload's, the identity the
\* one request_auth_code derived, and authenticated set
C8_PairingCompletes ==
    \A e \in Events :
        (/\ e.ev = "token_received"
         /\ json_loads(e.payload).ok
         /\ \A f \in Fields : HasKey(json_loads(e.payload).d, f))
            => /\ \E r \in Events : r.ev = "return" /\ r.fn = "verify_auth_code"
               /\ accesstoken = json_loads(e.payload).d.accesstoken
               /\ accesstoken_time = json_loads(e.payload).d.accesstoken_time
               /\ accesstoken_duration_day
                    = json_loads(e.payload).d.accesstoken_duration_day
               /\ refreshtoken = json_loads(e.payload).d.refreshtoken
               /\ refreshtoken_time = json_loads(e.payload).d.refreshtoken_time
               /\ refreshtoken_duration_day
                    = json_loads(e.payload).d.refreshtoken_duration_day
               /\ [client_id |-> client_id, username |-> username,
                   password |-> password] = snap["t1"].identity
               /\ authenticated

\* a pairing with the scrambled user name has returned with the tokens of
\* the second payload
C8_PairedWithToken2 ==
    /\ \E r \in Events : r.ev = "return" /\ r.fn = "verify_auth_code"
    /\ \E e \in Events : e.ev = "token_received" /\ e.payload = Token2
    /\ username = "his$" \o XorUsername(1009)
    /\ accesstoken = "A2"

\* C9: the record stored after a successful pairing holds the identity and
\* the six token fields, and a controller set up from it holds an access
\* token
C9_StoredCredentialsComplete ==
    /\ entry.created =>
        \A f \in Fields \cup {"client_id", "username", "password"} :
            HasKey(entry.credentials, f)
    /\ \A e \in Events : e.ev = "setup_entry" => Truthy(e.tokens.accesstoken)

\* C10: where request_auth_code or verify_auth_code raises, no client of
\* the controller is left running
C10_FailedPairingTornDown ==
    \A e \in Events :
        (e.ev = "raise" /\ e.fn \in {"request_auth_code", "verify_auth_code"})
            => Started = {}

\* C11: a pairing attempt of which a step has failed never reaches Paired:
\* no verify_auth_code returns after a failure in the same attempt
C11_FailedIsTerminal ==
    \A e \in Events :
        (e.ev = "return" /\ e.fn = "verify_auth_code") => ~snap["t1"].failed

TimeoutErrors ==
    {"TimeoutError", "RuntimeError: Timeout while connecting to MQTT broker"}

\* C12: every awaited step of pairing, refresh and query ends: a pending
\* wait is resolved or timed out, and an operation whose wait timed out
\* raises a timeout error
C12_AwaitsEndByTimeout ==
    /\ (pc["t1"] # "idle" /\ fut["t1"].state = "pending")
            ~> (fut["t1"].state # "pending")
    /\ (pc["t1"] # "idle" /\ fut["t1"].state = "timeout")
            ~> (\E e \in Events : e.ev = "raise" /\ e.payload \in TimeoutErrors)

\* a query raised TimeoutError because no reply came
C12_QueryTimedOut ==
    \E e \in Events :
        e.ev = "raise" /\ e.fn \in LiveQueries /\ e.payload = "TimeoutError"

\* C20: a query whose reply is not JSON does not return a value to its
\* caller
C20_NonJsonReplyFails ==
    \A e \in Events :
        (e.ev = "reply" /\ e.op \in Queries /\ ~json_loads(e.payload).ok)
            => ~(\E r \in Events : r.ev = "return" /\ r.op \in Queries)

PowerKey ==
    [topic |-> topicRemoBasepath \o "actions/sendkey", payload |-> "KEY_POWER"]

\* C16: the only command power_cycle_tv publishes is KEY_POWER on the remote
\* sendkey topic, it sends no query and reads no reply, and it has
\* published the command exactly once when it returns
C16_PowerCycleUnconditional ==
    \A e \in Events :
        e.op = "power_cycle_tv" =>
            /\ (e.ev = "publish" /\ e.fn = "_send_command")
                => e.topic = PowerKey.topic /\ e.payload = PowerKey.payload
            /\ e.fn # "_get_info"
            /\ e.ev = "return" => e.sent = <<PowerKey>>

\* power_cycle_tv returned
C16_PowerCycled ==
    \E e \in Events : e.op = "power_cycle_tv" /\ e.ev = "return"

OffChecked == Guarded \cup {"launch_app"}

Command(e) == e.ev = "publish" /\ e.fn = "_send_command"

\* C13: once send_key, change_source, change_volume or launch_app holds a
\* state reply with statetype fake_sleep_0, it publishes no command, does
\* not raise, and returns false
C13_OffIsNoOp ==
    \A e \in Events :
        (e.op \in OffChecked /\ e.state = StateOff) =>
            /\ ~Command(e)
            /\ e.sent = <<>>
            /\ e.ev # "raise"
            /\ e.ev = "return" => e.payload = "False"

\* launch_app resolved its app and then found the device off
C13_LaunchFoundOff ==
    \E e \in Events :
        /\ e.op = "launch_app" /\ e.ev = "return" /\ e.state = StateOff
        /\ e.app_name = "youtube"

\* C14: send_key, change_source, change_volume and launch_app, returning
\* after a state reply that is JSON and does not say fake_sleep_0, have
\* published their command exactly once and return true
C14_OnAlwaysActs ==
    \A e \in Events :
        (e.op \in OffChecked /\ e.ev = "return"
            /\ e.state \in {StateOn, StateEmpty}) =>
                e.payload = "True" /\ Len(e.sent) = 1

Apps == json_loads(AppList).d

Named(app_name) ==
    {i \in 1..Len(Apps) : upper(Apps[i].name) = upper(app_name)}

\* C15: a command launch_app publishes goes to the launchapp topic and
\* carries appId, name and url of a listed app whose name is the requested
\* one but for letter case; a launch_app for a name no listed app has
\* publishes no command and returns false
C15_LaunchMatchesName ==
    \A e \in Events :
        e.op = "launch_app" =>
            /\ Command(e) =>
                /\ e.topic = topicTVUIBasepath \o "actions/launchapp"
                /\ \E i \in Named(e.app_name) :
                        e.payload = json_dumps_launchapp(Apps[i])
            /\ (e.ev = "return" /\ Named(e.app_name) = {}) =>
                    e.payload = "False" /\ e.sent = <<>>

\* launch_app("youtube") launched the app listed as YouTube
C15_Launched ==
    \E e \in Events :
        /\ e.op = "launch_app" /\ e.ev = "return" /\ e.payload = "True"
        /\ e.app_name = "youtube" /\ Len(e.sent) = 1
        /\ e.sent[1].payload = json_dumps_launchapp(Apps[2])

\* C17: turn_on publishes KEY_POWER only on a state reply with statetype
\* fake_sleep_0 and turn_off only on one with another statetype; returning,
\* each has published KEY_POWER once in that case and nothing otherwise
C17_TurnIsConditional ==
    \A e \in Events :
        /\ e.op = "turn_on" =>
            /\ Command(e) => e.state = StateOff /\ e.topic = PowerKey.topic
                                /\ e.payload = PowerKey.payload
            /\ e.ev = "return" =>
                e.sent = IF e.state = StateOff THEN <<PowerKey>> ELSE <<>>
        /\ e.op = "turn_off" =>
            /\ Command(e) => e.state = StateOn /\ e.topic = PowerKey.topic
                                /\ e.payload = PowerKey.payload
            /\ e.ev = "return" =>
                e.sent = IF e.state = StateOn THEN <<PowerKey>> ELSE <<>>

\* turn_on found the device off and sent the power key
C17_TurnedOn ==
    \E e \in Events :
        /\ e.op = "turn_on" /\ e.ev = "return" /\ e.state = StateOff
        /\ e.sent = <<PowerKey>>

\* C18: async_turn_on publishes no KEY_POWER after a state reply other than
\* fake_sleep_0, and async_turn_off none after a state reply fake_sleep_0
C18_EntityTurnIsConditional ==
    \A e \in Events :
        /\ (e.op = "async_turn_on" /\ Command(e)) => e.state # StateOn
        /\ (e.op = "async_turn_off" /\ Command(e)) => e.state # StateOff

\* C19: async_update_data raises nothing to its caller
C19_UpdateNeverRaises ==
    \A e \in Events : e.op = "async_update_data" => e.ev # "raise"

\* the tasks whose _await_topic_once on topic is unresolved
Live(topic) ==
    {t \in Tasks : fut[t].state = "pending" /\ fut[t].topic = topic}

WaitedTopics == {fut[t].topic : t \in Tasks} \ {None}

\* C21: at every moment each topic has at most one waiter that is neither
\* resolved, cancelled nor timed out
C21_OneLiveWaiterPerTopic ==
    \A topic \in WaitedTopics : Cardinality(Live(topic)) <= 1

\* the future registered for topic, where there is one that is not done
Unresolved(topic) ==
    /\ topic \in DOMAIN topic_waiters
    /\ fut[topic_waiters[topic]].topic = topic
    /\ fut[topic_waiters[topic]].state = "pending"

Credentials ==
    << accesstoken, accesstoken_time, accesstoken_duration_day, refreshtoken,
       refreshtoken_time, refreshtoken_duration_day, client_id, username,
       password >>

C23_EndedCallUnregistered ==
    \A topic \in DOMAIN topic_waiters :
        /\ pc[topic_waiters[topic]] # "idle"
        /\ fut[topic_waiters[topic]].topic = topic
        /\ fut[topic_waiters[topic]].state # "none"

\* a wait for a reply has ended, by a message in one step and by its
\* timeout in another, and its topic has no entry
C23_ReplyWaitEnded ==
    \E e \in Events :
        /\ \/ e.ev = "reply"
           \/ e.ev = "raise" /\ e.payload = "TimeoutError" /\ e.op \in Queries
        /\ callback_topic(Cur, e.op) \notin DOMAIN topic_waiters
        /\ callback_topic(Cur, e.op) \in subscriptions

\* task u takes a step, or its wait times out
Acts(u) == pc'[u] # pc[u] \/ op'[u] # op[u] \/ fut'[u] # fut[u]

Registered(topic, t) ==
    topic \in DOMAIN topic_waiters /\ topic_waiters[topic] = t

\* C24: while a task waits for a topic, a step of another task that neither
\* leaves nor enters a wait on that topic, and a message on another topic,
\* leave the task's future and its entry in the waiter table as they are
C24_OtherTopicsIndependent ==
    [][\A t \in Tasks :
        (pc[t] # "idle" /\ fut[t].state = "pending" /\ fut[t].topic # None) =>
            /\ \A u \in Tasks \ {t} :
                (Acts(u) /\ fut[u].topic # fut[t].topic
                         /\ fut'[u].topic # fut[t].topic) =>
                    /\ fut'[t] = fut[t]
                    /\ Registered(fut[t].topic, t)
                        => Registered(fut[t].topic, t)'
            /\ \A c \in Started : \A topic \in c.subs \ {fut[t].topic} :
                \A payload \in Payloads :
                    on_message(c, topic, payload) => fut'[t] = fut[t]]_vars

\* one task's wait was resolved and cleaned up in this step while the other
\* task is still waiting, registered, for another topic
C24_OneEndedOtherWaiting ==
    \E t \in Tasks : \E e \in Events :
        /\ e.ev = "reply" /\ e.topic # fut[t].topic
        /\ fut[t].state = "pending" /\ Registered(fut[t].topic, t)

TokenFields ==
    << accesstoken, accesstoken_time, accesstoken_duration_day, refreshtoken,
       refreshtoken_time, refreshtoken_duration_day >>

\* C25: a step in which request_auth_code or verify_auth_code fails creates
\* no configuration entry and changes none of the six token fields
C25_FailedPairingPersistsNothing ==
    [][(\E e \in Events' :
            e.ev = "raise" /\ e.op \in {"request_auth_code",
                                        "verify_auth_code"})
        => UNCHANGED << entry, TokenFields >>]_vars

\* C26: request_auth_code returns exactly when the payload it received on
\* the authentication topic is the two characters "", and raises the
\* unexpected-payload error for every other payload
C26_OnlyExactAckAccepted ==
    \A e \in Events :
        (e.ev = "reply" /\ e.op = "request_auth_code") =>
            IF e.payload = AuthAck
            THEN \E r \in Events : r.ev = "return"
            ELSE \E r \in Events :
                    /\ r.ev = "raise"
                    /\ r.payload
                        = "RuntimeError: Unexpected authentication payload"

CodeReply(e) ==
    /\ e.ev = "reply" /\ e.op = "verify_auth_code"
    /\ e.topic = topicMobiBasepath \o "ui_service/data/authenticationcode"

TokenRequest(e) ==
    /\ e.ev = "publish" /\ e.op = "verify_auth_code"
    /\ \/ e.topic = topicTVPSBasepath \o "data/gettoken"
       \/ e.topic = topicTVUIBasepath \o "actions/authenticationcodeclose"

\* C27: verify_auth_code publishes the token request and the close signal
\* only after a reply with result 1 on the authenticationcode topic; after
\* any other reply it publishes neither and raises the code-rejected error
C27_TokenRequestAfterAcceptedCode ==
    /\ \A i \in 1..Len(trace) :
        TokenRequest(trace[i]) =>
            \E j \in 1..(i - 1) :
                CodeReply(trace[j]) /\ trace[j].payload = Result1
    /\ \A e \in Events :
        (CodeReply(e) /\ e.payload # Result1) =>
            /\ ~(\E p \in Events : TokenRequest(p))
            /\ \E r \in Events :
                r.ev = "raise" /\ r.payload = "RuntimeError: Authentication failed"

PairingTopics ==
    {topicBrcsBasepath \o "ui_service/state",
     topicMobiBasepath \o "ui_service/data/authentication",
     topicMobiBasepath \o "ui_service/data/authenticationcode",
     topicBrcsBasepath \o "ui_service/data/hotelmodechange",
     topicMobiBasepath \o "platform_service/data/tokenissuance"}

AppConnected(e) ==
    /\ e.ev = "publish" /\ e.op = "request_auth_code"
    /\ e.topic = topicTVUIBasepath \o "actions/vidaa_app_connect"

\* C28: when request_auth_code has published the app-connect announcement,
\* the client it published on is connected and subscribed to the five
\* pairing topics
C28_AnnouncedAfterSubscribing ==
    (\E e \in Events : AppConnected(e)) =>
        client.connected /\ PairingTopics \subseteq client.subs

RefreshConnect(e) == e.ev = "connect" /\ e.fn = "refresh_token"

RefreshGetToken(e) ==
    /\ e.ev = "publish" /\ e.fn = "refresh_token"
    /\ e.topic = "/remoteapp/tv/platform_service/" \o client_id
                    \o "/data/gettoken"

TornDownBefore(i) ==
    \E j \in 1..(i - 1) :
        trace'[j].ev = "teardown" /\ trace'[j].fn = "refresh_token"

\* C29: a step in which refresh_token opens a connection has torn down the
\* client that existed before it, leaves no replaced client running, and
\* opens the connection with the refresh token as password under the stored
\* username and client id; a step in which refresh_token publishes gettoken
\* publishes the refresh token on a connected client which is subscribed to
\* the token-issuance topic
C29_RefreshReconnectsThenAsks ==
    [][\A i \in 1..Len(trace') :
        /\ RefreshConnect(trace'[i]) =>
            /\ client # NoClient => TornDownBefore(i)
            /\ orphans' = orphans
            /\ client'.password = refreshtoken
            /\ client'.username = username
            /\ client'.client_id = client_id
        /\ RefreshGetToken(trace'[i]) =>
            /\ trace'[i].payload = "{\"refreshtoken\": \"" \o refreshtoken'
                                        \o "\"}"
            /\ client'.connected
            /\ (topicMobiBasepath \o "platform_service/data/tokenissuance")
                    \in client'.subs]_vars

\* a refresh that replaced an existing client has asked for its token
C29_RefreshAsked ==
    /\ \E e \in Events : RefreshGetToken(e)
    /\ client.connected
    /\ client.password = refreshtoken
    /\ refreshtoken # password

IdentityFields ==
    << client_id, username, password, topicTVUIBasepath, topicTVPSBasepath,
       topicMobiBasepath, topicBrcsBasepath, topicRemoBasepath >>

RefreshEnded(e) ==
    e.fn = "refresh_token" /\ e.ev \in {"refresh_ok", "refresh_failed"}

\* C30: no step of a paired controller's refresh, queries and commands
\* changes client_id, username, password or a topic prefix, and a step that
\* changes one of the six token fields is the end of a refresh_token call
C30_OnlyRefreshChangesTokens ==
    [][/\ UNCHANGED IdentityFields
       /\ TokenFields' # TokenFields =>
            \E e \in Events' : RefreshEnded(e)]_vars

\* a query or command has refreshed the tokens of the paired controller
C30_RefreshedInsideOperation ==
    \E e \in Events :
        /\ e.ev = "refresh_ok" /\ e.fn = "refresh_token"
        /\ e.op \notin {"refresh_token", "check_and_refresh_token"}
        /\ e.before # e.tokens
        /\ e.tokens.refreshtoken = refreshtoken
        /\ password # refreshtoken

Derived(t) ==
    \E e \in Events' : e.ev = "derived" /\ e.op = op'[t]

Differing(a, b) ==
    {k \in {"timestamp", "mac", "new_auth"} : a[k] # b[k]}

C32_EveryInputChangesPassword ==
    [][\A t \in Tasks :
        (/\ Derived(t)
         /\ snap[t].inputs # NoInputs
         /\ Cardinality(Differing(snap'[t].inputs, snap[t].inputs)) = 1)
            => snap'[t].identity.password # snap[t].identity.password]_vars

SameConnection ==
    \A e \in Events' : e.ev \notin {"connect", "teardown"}

Subscribes(topic) ==
    {i \in 1..Len(trace') :
        trace'[i].ev = "subscribe" /\ trace'[i].topic = topic}

\* C33: a step that stays on its connection sends no subscribe request for a
\* topic the connection is already subscribed to and at most one for any
\* other topic, and every topic the connection is subscribed to is in
\* self._subscriptions
C33_SubscribeIdempotent ==
    [][/\ client'.subs \subseteq subscriptions'
       /\ SameConnection =>
            \A topic \in client'.subs :
                /\ topic \in client.subs => Subscribes(topic) = {}
                /\ Cardinality(Subscribes(topic)) <= 1]_vars

\* request_auth_code has run again on the connection that holds its five
\* subscriptions and has published without subscribing
C33_SubscribedAlready ==
    /\ \E e \in Events : AppConnected(e)
    /\ \A e \in Events : e.ev \notin {"subscribe", "connect", "teardown"}
    /\ client.connected /\ PairingTopics \subseteq client.subs

QueryTimedOut(e) ==
    e.ev = "raise" /\ e.op \in Queries /\ e.payload = "TimeoutError"

\* C34: a query whose reply the device published after the request went out,
\* and before the wait for it timed out, does not end by that timeout
C34_ReplyAfterRequestDelivered ==
    (\E e \in Events : QueryTimedOut(e)) => ~snap["t1"].replied

\* task t leaves the _await_topic_once call whose wait has ended
Leaves(t) ==
    /\ fut[t].topic # None
    /\ fut[t].state \in {"done", "cancelled", "timeout"}
    /\ fut'[t] # fut[t]

\* C35: the step in which a task leaves its _await_topic_once call keeps the
\* entry of the waiter table that a later call of another task registered
\* for the same topic and is still waiting on
C35_CleanupRemovesOwnWaiterOnly ==
    [][\A t \in Tasks : \A u \in Tasks \ {t} :
        (/\ Leaves(t)
         /\ Registered(fut[t].topic, u)
         /\ fut[u].state = "pending" /\ fut[u].topic = fut[t].topic
         /\ fut'[u] = fut[u])
            => Registered(fut[t].topic, u)']_vars

\* C36: while the controller's client is connected, every topic in
\* self._subscriptions is subscribed on that client
C36_RecordedTopicsSubscribed ==
    (client # NoClient /\ client.connected) =>
        subscriptions \subseteq client.subs

\* C37: while the controller's client is connected, the client id and the
\* username it was built with are the controller's, and the client id is the
\* one in the topic prefixes
C37_PrefixesNameTheConnection ==
    (client # NoClient /\ client.connected) =>
        /\ client.client_id = client_id
        /\ client.username = username
        /\ topicMobiBasepath = "/remoteapp/mobile/" \o client.client_id \o "/"
        /\ topicTVUIBasepath
                = "/remoteapp/tv/ui_service/" \o client.client_id \o "/"
        /\ topicTVPSBasepath
                = "/remoteapp/tv/platform_service/" \o client.client_id \o "/"
        /\ topicRemoBasepath
                = "/remoteapp/tv/remote_service/" \o client.client_id \o "/"

\* the record of a device that is on, with none of the three results in it
BareRecord ==
    "{\"statetype\": \"livetv\", \"volume\": null, \"sources\": [], \"apps\": []}"

UpdatedOn(e) ==
    /\ e.ev = "return" /\ e.op = "async_update_data"
    /\ e.state = StateOn

ExtrasAsked(e) ==
    /\ e.ev = "publish" /\ e.op = "async_update_data"
    /\ e.topic \in {request_topic(Cur, "get_volume"),
                    request_topic(Cur, "get_source_list"),
                    request_topic(Cur, "get_app_list")}

\* C38: an update whose state reply has a statetype other than fake_sleep_0
\* does not return the record with null volume and empty sources and apps
\* unless it has asked the device for them
C38_OnStateFetchesExtras ==
    \A e \in Events :
        (UpdatedOn(e) /\ e.payload = BareRecord) =>
            \E p \in Events : ExtrasAsked(p)

FacadeOps ==
    Queries \cup Guarded
        \cup {"power_cycle_tv", "turn_on", "turn_off", "launch_app"}

NotAuthenticated ==
    "RuntimeError: Not authenticated. Call generate_creds() first."

\* the operations that ran in the step: those still under way after it and
\* those that returned or raised in it
StepOps ==
    ({op'[t] : t \in Tasks} \cup {e.op : e \in Events'}) \ {"none"}

====
